---- MODULE Spec2Model ----
(***************************************************************************)
(* A model of typescript-analyze-trace: the streaming trace parser         *)
(* (parse-trace-file.ts), the hot-path tree builder                        *)
(* (analyze-trace-utilities.ts) and the duplicate-package report           *)
(* (analyze-trace-file.ts / print-trace-analysis-text.ts), the position    *)
(* normalizer (normalize-positions.ts) and its trivia lexer                *)
(* (trivia-state-machine.ts).                                              *)
(***************************************************************************)
EXTENDS Integers, Sequences, FiniteSets, TLC

\* ------------------------------------------------------------------ bounds

\* Longest trace (number of top-level array elements) the model reads.
MaxEvents == 3
\* Largest timestamp (and largest Complete-event duration) of an event.
MaxTs == 2
\* Longest source text (in characters) the position normalizer reads.
MaxLen == 6
\* Number of type ids the types file may hold.
MaxTypes == 3

\* Number.POSITIVE_INFINITY, the initial minTime: above every timestamp.
Infinity == 1000

\* ------------------------------------------------------------------ values

NoFile == ""      \* args.fileName absent (or falsy)
NoSpan == [event |-> [ph |-> "none", ts |-> 0, dur |-> 0, name |-> "", fileName |-> NoFile, id |-> 0],
           start |-> 0, end |-> 0]

FileA == "/a/node_modules/foo/i.ts"
FileB == "/b/node_modules/foo/node_modules/@s/bar/i.ts"
FileC == "/a/node_modules/foo/j.ts"
FileD == "/src/q/node_modules/x/i.ts"

\* An Event object of the trace (interface Event): id is the object's identity,
\* its arrival index, given when the parser hands it to onValue.
MkEvent(ph, ts, dur, name, fileName) ==
    [ph |-> ph, ts |-> ts, dur |-> dur, name |-> name, fileName |-> fileName, id |-> 0]

\* The tracer writes an element when it happens: a Begin or an End carries the
\* time of writing as its ts, a Complete event is written when it ends, with
\* ts = (time of writing) - dur. An element below is written without its time;
\* Stamp gives it the time t and the identity id.
Stamp(value, t, id) ==
    [value EXCEPT !.ts = IF value.ph = "X" THEN t - value.dur ELSE t, !.id = id]

\* The elements a timing trace is drawn from.
TimingValues ==
    {MkEvent("B", 0, 0, "checkSourceFile", NoFile), MkEvent("E", 0, 0, "checkSourceFile", NoFile)}
    \cup {MkEvent("X", 0, dur, "checkExpression", NoFile) : dur \in 0..MaxTs}
    \cup {MkEvent("M", 0, 0, "process_name", NoFile), MkEvent("i", 0, 0, "mark", NoFile)}

\* The elements a module-resolution trace is drawn from: lookups with and
\* without a node_modules path, and a check of a file under node_modules.
PackageValues ==
    {MkEvent("B", 0, 0, "findSourceFile", FileA), MkEvent("E", 0, 0, "findSourceFile", NoFile)}
    \cup {MkEvent("X", 0, 0, "findSourceFile", f) : f \in {FileB, FileC, FileD, NoFile}}
    \cup {MkEvent("X", 0, 0, "checkSourceFile", FileB)}

\* The --skipMillis / --forceMillis pairs tried (in the trace's time unit);
\* checkCommandLineOptions rejects forceMillis < skipMillis.
Options == {o \in [skip : {0, 1}, force : {1, 2}] : o.force >= o.skip}

\* ------------------------------------------------------------------ state

VARIABLES
    kind,             \* what the trace file records: "timing" or "packages"
    minDuration,      \* skipMillis * 1000
    thresholdDuration,\* forceMillis * 1000
    pc,               \* where reportHighlights is
    now,              \* the time the last element was written at
    partial,          \* the JSON parser is inside an unfinished top-level element
    trace,            \* the complete top-level elements handed to onValue so far
    minTime, maxTime, unclosedStack, spans, nodeModulePaths,   \* parse's locals
    span,             \* the span onValue built last (its local `span`)
    root, stack, children, pos,   \* buildHotPathsTree's locals
    unclosedEvents,   \* result["unterminatedEvents"]
    duplicates,       \* getDuplicateNodeModules' result (the JSON report)
    tree              \* printDuplicateNodeModules' tree (the text report)

VARIABLES
    positions,        \* normalizePositions' argument
    normalizer,       \* normalizePositions' locals (prevCh, wrappers, cursor, stateMachine)
    result            \* what normalizePositions resolves with

VARIABLES
    relatedTypes,     \* the types the report knows, by id
    typeTree,         \* getTypeTree's tree (the text report)
    hotType           \* getHotType's result (the JSON report)

VARIABLES
    rawType,          \* simplifyType's argument, a record of the types file
    simplified        \* what simplifyType returns

VARIABLES
    typesPath,        \* reportHighlights' typesPath ("" when none was given)
    typesReadable,    \* whether the types file can be read
    sourceFile,       \* the source file the events refer to, as it is read
    positionMap,      \* getNormalizedPositions' result
    hotSpots,         \* getHotSpots' result
    printable         \* makePrintableTree's result (the text report's tree)

VARIABLES
    driver,           \* the directory driver: its projects, their workers and results
    counter           \* countImportExpressions' locals and its result

VARIABLES
    ancestorPath,     \* addTypeToTree's ancestorIds array
    walk              \* the calls of addTypeToTree in progress, outermost first

vars == <<kind, minDuration, thresholdDuration, pc, now, partial, trace, minTime, maxTime,
          unclosedStack, spans, nodeModulePaths, span, root, stack, children, pos,
          unclosedEvents, duplicates, tree, positions, normalizer, result,
          relatedTypes, typeTree, hotType, ancestorPath, walk,
          rawType, simplified, typesPath, typesReadable, sourceFile, positionMap, hotSpots,
          printable, driver, counter>>

\* The type walk has not been asked for.
WalkIdle == ancestorPath = <<>> /\ walk = <<>>
WalkUnchanged == UNCHANGED <<ancestorPath, walk>>
\* simplifyType has not been called.
SimplifyIdle == rawType = <<>> /\ simplified = <<>>
SimplifyUnchanged == UNCHANGED <<rawType, simplified>>
\* The parts of the report that run only when asked for.
\* getHotSpots has not been called.
HotIdle ==
    /\ typesPath = ""
    /\ typesReadable = TRUE
    /\ sourceFile = [exists |-> FALSE, chars |-> <<>>]
    /\ positionMap = <<>>
    /\ hotSpots = <<>>
    /\ printable = <<>>
HotUnchanged ==
    UNCHANGED <<typesPath, typesReadable, sourceFile, positionMap, hotSpots, printable>>
\* The directory driver is not running.
DriverIdle == driver = <<>>
DriverUnchanged == UNCHANGED driver
\* countImportExpressions has not been called.
CounterIdle == counter = <<>>
CounterUnchanged == UNCHANGED counter
\* The parts of the report that run only when asked for.
ExtraIdle == WalkIdle /\ SimplifyIdle /\ HotIdle /\ DriverIdle /\ CounterIdle
ExtraUnchanged ==
    WalkUnchanged /\ SimplifyUnchanged /\ HotUnchanged /\ DriverUnchanged /\ CounterUnchanged
\* What the parts leave alone of each other.
BesidesWalk == SimplifyUnchanged /\ HotUnchanged /\ DriverUnchanged /\ CounterUnchanged
BesidesSimplify == WalkUnchanged /\ HotUnchanged /\ DriverUnchanged /\ CounterUnchanged
BesidesHot == WalkUnchanged /\ SimplifyUnchanged /\ DriverUnchanged /\ CounterUnchanged
BesidesDriver == WalkUnchanged /\ SimplifyUnchanged /\ HotUnchanged /\ CounterUnchanged
BesidesCounter == WalkUnchanged /\ SimplifyUnchanged /\ HotUnchanged /\ DriverUnchanged

\* The elements a trace of nested checks is drawn from: Begin and End only.
NestedValues ==
    {MkEvent("B", 0, 0, "checkSourceFile", NoFile), MkEvent("E", 0, 0, "checkSourceFile", NoFile)}

\* A Complete event of category cat with args.path, args.pos and args.end
\* (NoFile and 0 when the event has none).
HotEvent(name, cat, dur, path, from, to) ==
    [ph |-> "X", ts |-> 0, dur |-> dur, name |-> name, fileName |-> NoFile, id |-> 0,
     cat |-> cat, path |-> path, pos |-> from, end |-> to]
\* The elements a trace of checks is drawn from: the check of a file, the check
\* of the node at the start of the file (args.pos is 0) and of a later node.
HotValues ==
    {HotEvent("checkSourceFile", "check", dur, FileA, 0, 0) : dur \in 1..MaxTs}
    \cup {HotEvent("checkExpression", "check", dur, FileA, from, 3) : dur \in 1..MaxTs, from \in {0, 1}}
\* The ranges of the nodes of a source file, end exclusive.
Ranges == {<<1, 2>>, <<2, 3>>, <<1, 3>>}
\* The elements a trace of checked nodes of one file is drawn from.
RangeValues ==
    {HotEvent("checkExpression", "check", dur, FileA, r[1], r[2]) : r \in Ranges, dur \in 1..MaxTs}

\* The elements the trace file at hand may hold.
Values ==
    CASE kind = "timing" -> TimingValues
      [] kind = "nested" -> NestedValues
      [] kind \in {"hot", "stacks"} -> HotValues
      [] kind = "ranges" -> RangeValues
      [] OTHER -> PackageValues
\* How many elements the trace file at hand may hold: two pairs of Begin and
\* End take one more than MaxEvents.
MaxTrace == IF kind = "nested" THEN MaxEvents + 1 ELSE MaxEvents

\* ------------------------------------------------------------------ helpers

Front(s) == SubSeq(s, 1, Len(s) - 1)
Last(s) == s[Len(s)]
Range(s) == {s[i] : i \in DOMAIN s}
MinOf(a, b) == IF a <= b THEN a ELSE b
MaxOf(a, b) == IF a >= b THEN a ELSE b

RECURSIVE Reverse(_)
Reverse(s) == IF s = <<>> THEN <<>> ELSE <<Last(s)>> \o Reverse(Front(s))

\* ------------------------------------------------------------------ packageNameRegex

\* /\/node_modules\/((?:[^@][^/]+)|(?:@[^/]+\/[^/]+))/g over a path string;
\* positions are 1-based.
Literal == "/node_modules/"
CharAt(s, i) == SubSeq(s, i, i)

\* [^/]+ is greedy: the last position of the run of non-slash characters that
\* starts at i (i - 1 when the run is empty).
RECURSIVE RunEnd(_, _)
RunEnd(s, i) ==
    IF i > Len(s) \/ CharAt(s, i) = "/" THEN i - 1 ELSE RunEnd(s, i + 1)

\* The last position of the pattern's match starting at p, 0 when it does not
\* match there.
MatchAt(s, p) ==
    LET q == p + Len(Literal) IN
    IF q - 1 > Len(s) \/ SubSeq(s, p, q - 1) # Literal THEN 0
    ELSE IF q > Len(s) THEN 0
    ELSE IF CharAt(s, q) # "@"
         THEN \* [^@][^/]+
              LET e == RunEnd(s, q + 1) IN IF e >= q + 1 THEN e ELSE 0
         ELSE \* @[^/]+\/[^/]+
              LET e1 == RunEnd(s, q + 1) IN
              IF e1 < q + 1 \/ e1 + 1 > Len(s) THEN 0
              ELSE LET e2 == RunEnd(s, e1 + 2) IN IF e2 >= e1 + 2 THEN e2 ELSE 0

\* RegExp.prototype.exec from lastIndex: the first position >= from where the
\* pattern matches, 0 when there is none (exec returns null, lastIndex resets).
RECURSIVE FindMatch(_, _)
FindMatch(s, from) ==
    IF from > Len(s) THEN 0
    ELSE IF MatchAt(s, from) > 0 THEN from
    ELSE FindMatch(s, from + 1)

\* The while (true) loop over exec: every match's (m[1], prefix up to the end
\* of the match), in order.
RECURSIVE PackageMatches(_, _)
PackageMatches(s, from) ==
    LET p == FindMatch(s, from) IN
    IF p = 0 THEN <<>>
    ELSE LET e == MatchAt(s, p) IN
         <<[packageName |-> SubSeq(s, p + Len(Literal), e), packagePath |-> SubSeq(s, 1, e)]>>
         \o PackageMatches(s, e + 1)

\* nodeModulePaths is a Map<string, string[]>: a sequence of entries in
\* insertion order.
HasPackage(map, name) == \E i \in DOMAIN map : map[i].name = name

\* Mutant: the indexOf test is missing.
RecordPath_NoIndexOf(map, name, path) ==
    IF HasPackage(map, name)
    THEN [i \in DOMAIN map |->
            IF map[i].name = name THEN [map[i] EXCEPT !.paths = Append(@, path)] ELSE map[i]]
    ELSE Append(map, [name |-> name, paths |-> <<path>>])

RecordPath(map, name, path) ==
    IF HasPackage(map, name)
    THEN [i \in DOMAIN map |->
            IF map[i].name = name /\ path \notin Range(map[i].paths)
            THEN [map[i] EXCEPT !.paths = Append(@, path)]
            ELSE map[i]]
    ELSE Append(map, [name |-> name, paths |-> <<path>>])

RECURSIVE RecordAll(_, _)
RecordAll(map, matches) ==
    IF matches = <<>> THEN map
    ELSE RecordAll(RecordPath(map, matches[1].packageName, matches[1].packagePath), Tail(matches))

RecordNodeModules(map, sp) ==
    IF sp.event.name = "findSourceFile" /\ sp.event.fileName # NoFile
    THEN RecordAll(map, PackageMatches(sp.event.fileName, 1))
    ELSE map

\* ------------------------------------------------------------------ parse

\* The locals of parse that its onValue callback closes over.
ParseLocals ==
    [minTime |-> minTime, maxTime |-> maxTime, unclosedStack |-> unclosedStack,
     spans |-> spans, nodeModulePaths |-> nodeModulePaths, span |-> span, threw |-> FALSE]

InitialLocals ==
    [minTime |-> Infinity, maxTime |-> 0, unclosedStack |-> <<>>, spans |-> <<>>,
     nodeModulePaths |-> <<>>, span |-> NoSpan, threw |-> FALSE]

\* The tail of onValue once `span` is built: the time bounds, the
\* node_modules bookkeeping, then the minDuration floor.
\* Mutant: the floor taken as a strict bound.
KeepSpan_Strict(sp) == (sp.end - sp.start) > minDuration

KeepSpan(sp) == (sp.end - sp.start) >= minDuration

\* Mutant: the floor applied before the node_modules bookkeeping.
ResolveSpan_FloorFirst(st, sp) ==
    [st EXCEPT !.span = sp,
               !.minTime = MinOf(@, sp.start),
               !.maxTime = MaxOf(@, sp.end),
               !.nodeModulePaths = IF KeepSpan(sp) THEN RecordNodeModules(@, sp) ELSE @,
               !.spans = IF KeepSpan(sp) THEN Append(@, sp) ELSE @]

ResolveSpan(st, sp) ==
    [st EXCEPT !.span = sp,
               !.minTime = MinOf(@, sp.start),
               !.maxTime = MaxOf(@, sp.end),
               !.nodeModulePaths = RecordNodeModules(@, sp),
               !.spans = IF KeepSpan(sp) THEN Append(@, sp) ELSE @]

\* Mutant: the End closes the oldest open Begin (shift() for pop()).
EndEvent_Fifo(st, event) ==
    IF st.unclosedStack = <<>>
    THEN [st EXCEPT !.threw = TRUE]
    ELSE LET beginEvent == Head(st.unclosedStack) IN
         ResolveSpan([st EXCEPT !.unclosedStack = Tail(@)],
                     [event |-> beginEvent, start |-> beginEvent.ts, end |-> event.ts])

\* Mutant: an End with no Begin open is skipped.
EndEvent_SkipUnmatched(st, event) ==
    IF st.unclosedStack = <<>>
    THEN st
    ELSE LET beginEvent == Last(st.unclosedStack) IN
         ResolveSpan([st EXCEPT !.unclosedStack = Front(@)],
                     [event |-> beginEvent, start |-> beginEvent.ts, end |-> event.ts])

\* An "E" event: unclosedStack.pop()!, then the span from the popped Begin.
\* With no Begin open pop() yields undefined and reading its ts throws a
\* TypeError out of the callback.
EndEvent(st, event) ==
    IF st.unclosedStack = <<>>
    THEN [st EXCEPT !.threw = TRUE]
    ELSE LET beginEvent == Last(st.unclosedStack) IN
         ResolveSpan([st EXCEPT !.unclosedStack = Front(@)],
                     [event |-> beginEvent, start |-> beginEvent.ts, end |-> event.ts])

CompleteEvent(st, event) ==
    ResolveSpan(st, [event |-> event, start |-> event.ts, end |-> event.ts + event.dur])

\* p.onValue for a top-level array element.
HandleValue(st, event) ==
    IF event.ph = "M" THEN st
    ELSE IF event.ph \in {"i", "I"} THEN st
    ELSE IF event.ph = "B" THEN [st EXCEPT !.unclosedStack = Append(@, event)]
    ELSE IF event.ph = "E" THEN EndEvent(st, event)
    ELSE IF event.ph = "X" THEN CompleteEvent(st, event)
    ELSE [st EXCEPT !.threw = TRUE]

TreeUnchanged == UNCHANGED <<root, stack, children, pos, unclosedEvents, duplicates, tree>>
ConfigUnchanged ==
    /\ UNCHANGED <<kind, minDuration, thresholdDuration, positions, normalizer, result,
                   relatedTypes, typeTree, hotType>>
    /\ ExtraUnchanged

\* onValue, called by the JSON parser with a complete element of the
\* top-level array (this.stack.length === 1).
OnValue(value, t) ==
    /\ pc = "parse"
    /\ Len(trace) < MaxTrace
    /\ t >= now
    /\ value.ph = "X" => value.dur <= t
    /\ now' = t
    /\ LET event == Stamp(value, t, Len(trace) + 1)
           st == HandleValue(ParseLocals, event)
       IN /\ trace' = Append(trace, event)
          /\ minTime' = st.minTime
          /\ maxTime' = st.maxTime
          /\ unclosedStack' = st.unclosedStack
          /\ spans' = st.spans
          /\ nodeModulePaths' = st.nodeModulePaths
          /\ span' = st.span
          /\ pc' = IF st.threw THEN "threw" ELSE "parse"
    /\ partial' = FALSE
    /\ TreeUnchanged
    /\ ConfigUnchanged

\* Mutant: the depth check is missing and a nested value is taken for an element.
NestedValue_AsElement(st, value) == HandleValue(st, value)

\* What onValue does with a value nested inside an element
\* (this.stack.length !== 1): it returns at once.
NestedValue(st, value) == st

\* onValue, called with a value nested inside a top-level element that is
\* still being read.
OnNestedValue(value) ==
    /\ pc = "parse"
    /\ Len(trace) < MaxTrace
    /\ LET st == NestedValue(ParseLocals, value)
       IN /\ minTime' = st.minTime
          /\ maxTime' = st.maxTime
          /\ unclosedStack' = st.unclosedStack
          /\ spans' = st.spans
          /\ nodeModulePaths' = st.nodeModulePaths
          /\ span' = st.span
          /\ pc' = IF st.threw THEN "threw" ELSE "parse"
    /\ partial' = TRUE
    /\ UNCHANGED <<trace, now>>
    /\ TreeUnchanged
    /\ ConfigUnchanged

\* readStream "end": the promise resolves with the locals as they are,
\* whether or not the array was closed.
StreamEnd ==
    /\ pc = "parse"
    /\ pc' = "resolved"
    /\ UNCHANGED <<now, partial, trace, minTime, maxTime, unclosedStack, spans, nodeModulePaths, span>>
    /\ TreeUnchanged
    /\ ConfigUnchanged

\* ------------------------------------------------------------------ buildHotPathsTree

\* Mutant: the loop stops at i > 0 and leaves out the oldest open Begin.
RECURSIVE ReinsertUnclosed_SkipOldest(_, _, _)
ReinsertUnclosed_SkipOldest(sp, unclosed, maxT) ==
    IF Len(unclosed) <= 1 THEN sp
    ELSE ReinsertUnclosed_SkipOldest(
            Append(sp, [event |-> Last(unclosed), start |-> Last(unclosed).ts, end |-> maxT]),
            Front(unclosed), maxT)

\* for (i = unclosedStack.length - 1; i >= 0; i--) spans.push({event, start: +event.ts, end: maxTime})
RECURSIVE ReinsertUnclosed(_, _, _)
ReinsertUnclosed(sp, unclosed, maxT) ==
    IF unclosed = <<>> THEN sp
    ELSE ReinsertUnclosed(
            Append(sp, [event |-> Last(unclosed), start |-> Last(unclosed).ts, end |-> maxT]),
            Front(unclosed), maxT)

\* spans.sort((a, b) => a.start - b.start): Array.prototype.sort is stable.
InsertByStart(sorted, s) ==
    LET k == Cardinality({i \in DOMAIN sorted : sorted[i].start <= s.start})
    IN SubSeq(sorted, 1, k) \o <<s>> \o SubSeq(sorted, k + 1, Len(sorted))

RECURSIVE SortByStart(_)
SortByStart(sp) ==
    IF sp = <<>> THEN <<>> ELSE InsertByStart(SortByStart(Front(sp)), Last(sp))

\* A node of the tree is the root (0) or a span, named by its place in the
\* sorted span list.
NodeStart(n) == IF n = 0 THEN root.start ELSE spans[n].start
NodeEnd(n) == IF n = 0 THEN root.end ELSE spans[n].end
NodeDuration(n) == NodeEnd(n) - NodeStart(n)

\* for (i = stack.length - 1; i > 0; i--) if (stack[i].end > span.start) break:
\* the place in the stack (1-based; 1 is the root) where the scan stops.
RECURSIVE ScanStack(_, _, _)
ScanStack(stk, i, start) ==
    IF i <= 1 THEN 1
    ELSE IF NodeEnd(stk[i]) > start THEN i
    ELSE ScanStack(stk, i - 1, start)

\* stack.length = i + 1 runs only when the scan breaks; when it reaches the
\* root the stack is left as it is.
PopDownTo(stk, i) == IF i > 1 THEN SubSeq(stk, 1, i) ELSE stk

\* duration >= minPercentage * (parent.end - parent.start), minPercentage = 0.6
AtLeastMinPercentage(duration, parentDuration) == 10 * duration >= 6 * parentDuration

\* Mutant: both tests required.
ShouldInclude_Both(duration, parentDuration) ==
    duration >= thresholdDuration /\ AtLeastMinPercentage(duration, parentDuration)

ShouldInclude(duration, parentDuration) ==
    duration >= thresholdDuration \/ AtLeastMinPercentage(duration, parentDuration)

ParseUnchanged == UNCHANGED <<now, partial, trace, minTime, maxTime, nodeModulePaths, span>>

\* buildHotPathsTree up to its loop: the unterminated events re-inserted, the
\* spans sorted, the root made.
BuildStart ==
    /\ pc = "resolved"
    /\ spans' = SortByStart(ReinsertUnclosed(spans, unclosedStack, maxTime))
    /\ root' = [start |-> minTime, end |-> maxTime]
    /\ stack' = <<0>>
    /\ children' = [n \in 0..Len(spans') |-> <<>>]
    /\ pos' = 1
    /\ pc' = "build"
    /\ UNCHANGED <<unclosedStack, unclosedEvents, duplicates, tree>>
    /\ ParseUnchanged
    /\ ConfigUnchanged

\* One iteration of for (const span of spans).
BuildStep ==
    /\ pc = "build"
    /\ pos <= Len(spans)
    /\ LET i == ScanStack(stack, Len(stack), spans[pos].start)
           popped == PopDownTo(stack, i)
           parent == stack[i]
           duration == spans[pos].end - spans[pos].start
       IN IF ShouldInclude(duration, NodeDuration(parent))
          THEN /\ children' = [children EXCEPT ![parent] = Append(@, pos)]
               /\ stack' = Append(popped, pos)
          ELSE /\ children' = children
               /\ stack' = popped
    /\ pos' = pos + 1
    /\ UNCHANGED <<pc, spans, root, unclosedStack, unclosedEvents, duplicates, tree>>
    /\ ParseUnchanged
    /\ ConfigUnchanged

\* ------------------------------------------------------------------ reportHighlights

\* buildHotPathsTree has returned: unclosedEvents = parseResult.unclosedStack;
\* unclosedEvents.reverse() reverses the one array in place.
ReportUnterminated ==
    /\ pc = "build"
    /\ pos > Len(spans)
    /\ unclosedStack' = Reverse(unclosedStack)
    /\ unclosedEvents' = unclosedStack'
    /\ pc' = "json"
    /\ UNCHANGED <<spans, root, stack, children, pos, duplicates, tree>>
    /\ ParseUnchanged
    /\ ConfigUnchanged

\* getPackageVersion: the version in the package's package.json, undefined
\* when it cannot be read.
Undefined == "undefined"
Versions == {Undefined, "1.0.0"}

\* getDuplicateNodeModules: the packages with at least two paths, in the
\* map's order, each with an instance per path.
RECURSIVE DuplicatesOf(_, _)
DuplicatesOf(map, version) ==
    IF map = <<>> THEN <<>>
    ELSE LET rest == DuplicatesOf(Tail(map), version)
             packagePaths == map[1].paths
         IN IF Len(packagePaths) < 2 THEN rest
            ELSE <<[name |-> map[1].name,
                    instances |-> [k \in DOMAIN packagePaths |->
                                     [path |-> packagePaths[k], version |-> version[packagePaths[k]]]]]>>
                 \o rest

AllPaths(map) == UNION {Range(map[i].paths) : i \in DOMAIN map}

GetDuplicateNodeModules ==
    /\ pc = "json"
    /\ \E version \in [AllPaths(nodeModulePaths) -> Versions] :
          duplicates' = DuplicatesOf(nodeModulePaths, version)
    /\ pc' = "jsonDone"
    /\ UNCHANGED <<spans, root, stack, children, pos, unclosedStack, unclosedEvents, tree>>
    /\ ParseUnchanged
    /\ ConfigUnchanged

\* ------------------------------------------------------------------ the text report

\* String.prototype.localeCompare on the characters paths and package names
\* are made of: punctuation before digits before letters.
Collation == "_-.@/0123456789abcdefghijklmnopqrstuvwxyz"
Rank(c) == CHOOSE i \in 1..Len(Collation) : CharAt(Collation, i) = c

RECURSIVE CompareFrom(_, _, _)
CompareFrom(a, b, i) ==
    IF i > Len(a) /\ i > Len(b) THEN 0
    ELSE IF i > Len(a) THEN -1
    ELSE IF i > Len(b) THEN 1
    ELSE IF Rank(CharAt(a, i)) < Rank(CharAt(b, i)) THEN -1
    ELSE IF Rank(CharAt(a, i)) > Rank(CharAt(b, i)) THEN 1
    ELSE CompareFrom(a, b, i + 1)

LocaleCompare(a, b) == CompareFrom(a, b, 1)

\* packagePaths.sort((p1, p2) => p1.localeCompare(p2))
RECURSIVE SortPaths(_)
SortPaths(paths) ==
    IF paths = <<>> THEN <<>>
    ELSE LET sorted == SortPaths(Front(paths))
             k == Cardinality({i \in DOMAIN sorted : LocaleCompare(sorted[i], Last(paths)) <= 0})
         IN SubSeq(sorted, 1, k) \o <<Last(paths)>> \o SubSeq(sorted, k + 1, Len(sorted))

\* .sort(([n1, p1], [n2, p2]) => p2.length - p1.length || n1.localeCompare(n2))
EntryBefore(e1, e2) ==
    \/ Len(e1.paths) > Len(e2.paths)
    \/ Len(e1.paths) = Len(e2.paths) /\ LocaleCompare(e1.name, e2.name) <= 0

RECURSIVE SortEntries(_)
SortEntries(map) ==
    IF map = <<>> THEN <<>>
    ELSE LET sorted == SortEntries(Front(map))
             k == Cardinality({i \in DOMAIN sorted : EntryBefore(sorted[i], Last(map))})
         IN SubSeq(sorted, 1, k) \o <<Last(map)>> \o SubSeq(sorted, k + 1, Len(sorted))

\* `${version ? `Version ${version}` : `Unknown version`} from ${packagePath}`
InstanceLabel(version, packagePath) ==
    (IF version # Undefined THEN "Version " \o version ELSE "Unknown version")
    \o " from " \o packagePath

\* The loop of printDuplicateNodeModules over the sorted entries: tree is an
\* object, kept as its keys in insertion order with each key's own keys.
RECURSIVE PrintedTree(_, _)
PrintedTree(sorted, version) ==
    IF sorted = <<>> THEN <<>>
    ELSE LET rest == PrintedTree(Tail(sorted), version)
             packagePaths == SortPaths(sorted[1].paths)
         IN IF Len(sorted[1].paths) < 2 THEN rest
            ELSE <<[name |-> sorted[1].name,
                    labels |-> [k \in DOMAIN packagePaths |->
                                  InstanceLabel(version[packagePaths[k]], packagePaths[k])],
                    paths |-> packagePaths]>>
                 \o rest

\* The text report's reportHighlights after buildHotPathsTree: it pops and
\* prints every unterminated event.
PrintUnterminated ==
    /\ pc = "build"
    /\ pos > Len(spans)
    /\ unclosedStack' = <<>>
    /\ pc' = "text"
    /\ UNCHANGED <<spans, root, stack, children, pos, unclosedEvents, duplicates, tree>>
    /\ ParseUnchanged
    /\ ConfigUnchanged

\* printDuplicateNodeModules; the path lists it reports are sorted in place.
PrintDuplicateNodeModules ==
    /\ pc = "text"
    /\ \E version \in [AllPaths(nodeModulePaths) -> Versions] :
          tree' = PrintedTree(SortEntries(nodeModulePaths), version)
    /\ nodeModulePaths' = [i \in DOMAIN nodeModulePaths |->
                             IF Len(nodeModulePaths[i].paths) < 2 THEN nodeModulePaths[i]
                             ELSE [nodeModulePaths[i] EXCEPT !.paths = SortPaths(@)]]
    /\ pc' = "textDone"
    /\ UNCHANGED <<now, partial, trace, minTime, maxTime, span>>
    /\ UNCHANGED <<spans, root, stack, children, pos, unclosedStack, unclosedEvents, duplicates>>
    /\ ConfigUnchanged

\* ------------------------------------------------------------------ trivia-state-machine.ts

\* Characters are UTF-16 code units, as charCodeAt gives them; NoChar is the
\* -1 that stands for "no character" (prevCh before the first one, nextCh
\* after the last one).
NoChar == -1
code_CarriageReturn == 13
code_NewLine == 10
code_Space == 32
code_Tab == 9
code_Slash == 47
code_Backslash == 92
code_Star == 42
code_Hash == 35
code_Bang == 33
code_SingleQuote == 39
code_DoubleQuote == 34
code_OpenBrace == 123
code_CloseBrace == 125
code_OpenBracket == 91
code_CloseBracket == 93
code_Backtick == 96
code_Dollar == 36
\* "a", a character the lexer has no case for.
code_Letter == 97

\* The states whose characters step classifies as comment, string and regex.
CommentStates == {"StartSingleLineComment", "SingleLineComment", "StartMultiLineComment",
                  "MultiLineComment", "EndMultiLineComment", "StartShebangComment",
                  "ShebangComment"}
StringStates == {"SingleQuoteString", "SingleQuoteStringEscapeBackslash",
                 "SingleQuoteStringEscapeQuote", "DoubleQuoteString",
                 "DoubleQuoteStringEscapeBackslash", "DoubleQuoteStringEscapeQuote",
                 "TemplateString", "TemplateStringEscapeBackslash",
                 "TemplateStringEscapeQuote", "StartExpressionHole"}
RegexStates == {"Regex", "RegexEscapeBackslash", "RegexEscapeSlash", "RegexEscapeOpenBracket",
                "CharClass", "CharClassEscapeBackslash", "CharClassEscapeCloseBracket"}

\* create(): the machine's four locals.
Create == [state |-> "Default", braceDepth |-> 0,
           templateStringBraceDepthStack |-> <<>>, isBOF |-> TRUE]

\* step's locals at the top of the function: the machine, nextStateId, wrapLine.
StepLocals(m) == [state |-> m.state, braceDepth |-> m.braceDepth,
                  templateStringBraceDepthStack |-> m.templateStringBraceDepthStack,
                  nextStateId |-> "Uninitialized", wrapLine |-> FALSE]

\* The states a CR that an LF follows sends back to Default.
CrLfResetStates == {"ShebangComment", "SingleLineComment", "SingleQuoteString",
                    "DoubleQuoteString", "Regex", "CharClass"}
\* The states an LF, or a CR that no LF follows, sends back to Default.
NewLineResetStates == {"ShebangComment", "SingleLineComment", "SingleQuoteString",
                       "DoubleQuoteString"}

CaseNewLine(l) ==
    [l EXCEPT !.wrapLine = TRUE,
              !.state = IF @ \in NewLineResetStates THEN "Default" ELSE @]

\* A CR that wraps the line whatever follows it.
CaseCarriageReturn_AlwaysWraps(l, nextCh) == CaseNewLine(l)
CaseCarriageReturn(l, nextCh) ==
    IF nextCh = code_NewLine
    THEN [l EXCEPT !.state = IF @ \in CrLfResetStates THEN "Default" ELSE @]
    ELSE CaseNewLine(l)

CaseSlash(l, nextCh) ==
    CASE l.state = "Default" ->
            [l EXCEPT !.state = IF nextCh = code_Slash THEN "StartSingleLineComment"
                                ELSE IF nextCh = code_Star THEN "StartMultiLineComment"
                                ELSE "Regex"]
      [] l.state = "StartSingleLineComment" -> [l EXCEPT !.state = "SingleLineComment"]
      [] l.state = "EndMultiLineComment" -> [l EXCEPT !.nextStateId = "Default"]
      [] l.state = "Regex" -> [l EXCEPT !.nextStateId = "Default"]
      [] l.state = "RegexEscapeSlash" -> [l EXCEPT !.nextStateId = "Regex"]
      [] OTHER -> l

CaseStar(l, nextCh) ==
    CASE l.state = "StartMultiLineComment" -> [l EXCEPT !.state = "MultiLineComment"]
      [] l.state = "MultiLineComment" /\ nextCh = code_Slash ->
            [l EXCEPT !.state = "EndMultiLineComment"]
      [] OTHER -> l

CaseHash(l, nextCh, isBOF) ==
    IF isBOF /\ l.state = "Default" /\ nextCh = code_Bang
    THEN [l EXCEPT !.state = "StartShebangComment"]
    ELSE l

CaseBang(l) ==
    IF l.state = "StartShebangComment" THEN [l EXCEPT !.state = "ShebangComment"] ELSE l

\* The three quote characters share one shape: open from Default, stay after
\* an escaped quote, close from the string state.
CaseQuote(l, string, escapeQuote) ==
    CASE l.state = "Default" -> [l EXCEPT !.state = string]
      [] l.state = escapeQuote -> [l EXCEPT !.nextStateId = string]
      [] l.state = string -> [l EXCEPT !.nextStateId = "Default"]
      [] OTHER -> l

CaseBackslash(l, nextCh) ==
    CASE l.state = "SingleQuoteString" ->
            [l EXCEPT !.state = IF nextCh = code_SingleQuote THEN "SingleQuoteStringEscapeQuote"
                                ELSE IF nextCh = code_Backslash
                                     THEN "SingleQuoteStringEscapeBackslash" ELSE @]
      [] l.state = "DoubleQuoteString" ->
            [l EXCEPT !.state = IF nextCh = code_DoubleQuote THEN "DoubleQuoteStringEscapeQuote"
                                ELSE IF nextCh = code_Backslash
                                     THEN "DoubleQuoteStringEscapeBackslash" ELSE @]
      [] l.state = "TemplateString" ->
            [l EXCEPT !.state = IF nextCh = code_Backtick THEN "TemplateStringEscapeQuote"
                                ELSE IF nextCh = code_Backslash
                                     THEN "TemplateStringEscapeBackslash" ELSE @]
      [] l.state = "Regex" ->
            [l EXCEPT !.state = IF nextCh = code_OpenBracket THEN "RegexEscapeOpenBracket"
                                ELSE IF nextCh = code_Slash THEN "RegexEscapeSlash"
                                ELSE IF nextCh = code_Backslash THEN "RegexEscapeBackslash"
                                ELSE @]
      [] l.state = "CharClass" ->
            [l EXCEPT !.state = IF nextCh = code_CloseBracket THEN "CharClassEscapeCloseBracket"
                                ELSE IF nextCh = code_Backslash THEN "CharClassEscapeBackslash"
                                ELSE @]
      [] l.state = "SingleQuoteStringEscapeBackslash" ->
            [l EXCEPT !.nextStateId = "SingleQuoteString"]
      [] l.state = "DoubleQuoteStringEscapeBackslash" ->
            [l EXCEPT !.nextStateId = "DoubleQuoteString"]
      [] l.state = "TemplateStringEscapeBackslash" -> [l EXCEPT !.nextStateId = "TemplateString"]
      [] l.state = "RegexEscapeBackslash" -> [l EXCEPT !.nextStateId = "Regex"]
      [] l.state = "CharClassEscapeBackslash" -> [l EXCEPT !.nextStateId = "CharClass"]
      [] OTHER -> l

CaseDollar(l, nextCh) ==
    IF l.state = "TemplateString" /\ nextCh = code_OpenBrace
    THEN [l EXCEPT !.state = "StartExpressionHole"]
    ELSE l

CaseOpenBrace(l) ==
    CASE l.state = "Default" -> [l EXCEPT !.braceDepth = @ + 1]
      [] l.state = "StartExpressionHole" ->
            [l EXCEPT !.templateStringBraceDepthStack = Append(@, l.braceDepth),
                      !.nextStateId = "Default"]
      [] OTHER -> l

\* The test that lets a `}` close an expression hole.
ClosesHole(l) ==
    /\ Len(l.templateStringBraceDepthStack) > 0
    /\ l.braceDepth = Last(l.templateStringBraceDepthStack)

\* Mutant: the error-recovery branch is tried first.
CaseCloseBrace_DecrementFirst(l) ==
    IF l.state = "Default" /\ l.braceDepth > 0
    THEN [l EXCEPT !.braceDepth = @ - 1]
    ELSE IF ClosesHole(l)
         THEN [l EXCEPT !.templateStringBraceDepthStack = Front(@), !.state = "TemplateString"]
         ELSE l
CaseCloseBrace(l) ==
    IF ClosesHole(l)
    THEN [l EXCEPT !.templateStringBraceDepthStack = Front(@), !.state = "TemplateString"]
    ELSE IF l.state = "Default" /\ l.braceDepth > 0
         THEN [l EXCEPT !.braceDepth = @ - 1]
         ELSE l

CaseOpenBracket(l) ==
    CASE l.state = "RegexEscapeOpenBracket" -> [l EXCEPT !.nextStateId = "Regex"]
      [] l.state = "Regex" -> [l EXCEPT !.state = "CharClass"]
      [] OTHER -> l

CaseCloseBracket(l) ==
    CASE l.state = "CharClassEscapeCloseBracket" -> [l EXCEPT !.nextStateId = "CharClass"]
      [] l.state = "CharClass" -> [l EXCEPT !.nextStateId = "Regex"]
      [] OTHER -> l

\* switch (ch) of step.
SwitchCh(m, ch, nextCh) ==
    LET l == StepLocals(m) IN
    CASE ch = code_CarriageReturn -> CaseCarriageReturn(l, nextCh)
      [] ch = code_NewLine -> CaseNewLine(l)
      [] ch = code_Slash -> CaseSlash(l, nextCh)
      [] ch = code_Star -> CaseStar(l, nextCh)
      [] ch = code_Hash -> CaseHash(l, nextCh, m.isBOF)
      [] ch = code_Bang -> CaseBang(l)
      [] ch = code_SingleQuote ->
            CaseQuote(l, "SingleQuoteString", "SingleQuoteStringEscapeQuote")
      [] ch = code_DoubleQuote ->
            CaseQuote(l, "DoubleQuoteString", "DoubleQuoteStringEscapeQuote")
      [] ch = code_Backtick -> CaseQuote(l, "TemplateString", "TemplateStringEscapeQuote")
      [] ch = code_Backslash -> CaseBackslash(l, nextCh)
      [] ch = code_Dollar -> CaseDollar(l, nextCh)
      [] ch = code_OpenBrace -> CaseOpenBrace(l)
      [] ch = code_CloseBrace -> CaseCloseBrace(l)
      [] ch = code_OpenBracket -> CaseOpenBracket(l)
      [] ch = code_CloseBracket -> CaseCloseBracket(l)
      [] OTHER -> l

\* The characters /^\s$/ and the four explicit tests accept, among those the
\* model writes.
IsWhitespace(ch) == ch \in {code_Space, code_Tab, code_NewLine, code_CarriageReturn}

\* Mutant: the character is looked at first.
CharKindOf_WhitespaceFirst(state, ch) ==
    IF IsWhitespace(ch) THEN "whitespace"
    ELSE IF state \in CommentStates THEN "comment"
    ELSE IF state \in StringStates THEN "string"
    ELSE IF state \in RegexStates THEN "regex"
    ELSE "code"

\* switch (state) of step.
CharKindOf(state, ch) ==
    IF state \in CommentStates THEN "comment"
    ELSE IF state \in StringStates THEN "string"
    ELSE IF state \in RegexStates THEN "regex"
    ELSE IF IsWhitespace(ch) THEN "whitespace"
    ELSE "code"

\* step(ch, nextCh): the machine afterwards and the StepResult.
Step(m, ch, nextCh) ==
    LET l == SwitchCh(m, ch, nextCh) IN
    [machine |-> [state |-> IF l.nextStateId # "Uninitialized" THEN l.nextStateId ELSE l.state,
                  braceDepth |-> l.braceDepth,
                  templateStringBraceDepthStack |-> l.templateStringBraceDepthStack,
                  isBOF |-> FALSE],
     charKind |-> CharKindOf(l.state, ch),
     wrapLine |-> l.wrapLine]

\* ------------------------------------------------------------------ normalize-positions.ts

\* A position is a number or a LineChar; `type` is what typeof tells apart,
\* and `value` holds the number as a tuple of one.
Offset(n) == [type |-> "number", value |-> <<n>>]
LineChar(line, char) == [type |-> "object", value |-> <<line, char>>]

\* The unset optional fields of a PositionWrapper; neither is read before
\* onChar has written it.
NoOffset == -1
NoLineChar == <<0, 0>>

Abs(n) == IF n < 0 THEN -n ELSE n

compareOffsets(a, b) == a - b
\* compareLineChars comparing the chars before the lines.
compareLineChars_CharFirst(a, b) == IF a[2] - b[2] # 0 THEN a[2] - b[2] ELSE a[1] - b[1]
compareLineChars(a, b) == IF a[1] - b[1] # 0 THEN a[1] - b[1] ELSE a[2] - b[2]

\* freeze: an array of its own holding the two numbers; the cached array is
\* replaced, never written, so a wrapper's lineChar keeps its value.
freeze(lineChar) == <<lineChar[1], lineChar[2]>>

\* The bucket a position goes to and the wrapper pushed for it; returnIndex
\* counts from 1 here.
IsFixed(position) ==
    IF position.type = "number" THEN position.value[1] < 0
    ELSE position.value[1] < 0 \/ position.value[2] < 0
Bucket(position) ==
    IF position.type = "number"
    THEN (IF IsFixed(position) THEN "fixedOffset" ELSE "offset")
    ELSE (IF IsFixed(position) THEN "fixedLineChar" ELSE "lineChar")
\* The wrapper with the sign left on the target.
Wrapper_KeepSign(position, i) ==
    IF position.type = "number"
    THEN [returnIndex |-> i, offset |-> position.value[1], lineChar |-> NoLineChar]
    ELSE [returnIndex |-> i, offset |-> NoOffset, lineChar |-> position.value]
Wrapper(position, i) ==
    CASE Bucket(position) = "fixedOffset" ->
            [returnIndex |-> i, offset |-> -position.value[1], lineChar |-> NoLineChar]
      [] Bucket(position) = "offset" ->
            [returnIndex |-> i, offset |-> position.value[1], lineChar |-> NoLineChar]
      [] Bucket(position) = "fixedLineChar" ->
            [returnIndex |-> i, offset |-> NoOffset,
             lineChar |-> <<Abs(position.value[1]), Abs(position.value[2])>>]
      [] OTHER ->
            [returnIndex |-> i, offset |-> NoOffset, lineChar |-> position.value]

\* The partition loop: the wrappers of one bucket, in the order of positions.
RECURSIVE Partition(_, _, _)
Partition(ps, bucket, i) ==
    IF i > Len(ps) THEN <<>>
    ELSE (IF Bucket(ps[i]) = bucket THEN <<Wrapper(ps[i], i)>> ELSE <<>>)
         \o Partition(ps, bucket, i + 1)

\* Array.prototype.sort with the bucket's comparator (a stable sort).
CompareWrappers(a, b, byOffset) ==
    IF byOffset THEN compareOffsets(a.offset, b.offset)
    ELSE compareLineChars(a.lineChar, b.lineChar)
RECURSIVE InsertWrapper(_, _, _)
InsertWrapper(sorted, w, byOffset) ==
    IF sorted = <<>> THEN <<w>>
    ELSE IF CompareWrappers(Last(sorted), w, byOffset) <= 0 THEN Append(sorted, w)
    ELSE Append(InsertWrapper(Front(sorted), w, byOffset), Last(sorted))
RECURSIVE SortWrappers(_, _)
SortWrappers(ws, byOffset) ==
    IF ws = <<>> THEN <<>>
    ELSE InsertWrapper(SortWrappers(Front(ws), byOffset), Last(ws), byOffset)

\* One of onChar's four for loops: resolve the pending wrappers of a bucket
\* whose target is at or before the cursor.
RECURSIVE ResolvePending(_, _, _, _, _)
ResolvePending(wrappers, wrappersPos, byOffset, offset, lineChar) ==
    IF /\ wrappersPos < Len(wrappers)
       /\ (IF byOffset THEN compareOffsets(wrappers[wrappersPos + 1].offset, offset) <= 0
           ELSE compareLineChars(wrappers[wrappersPos + 1].lineChar, lineChar) <= 0)
    THEN ResolvePending([wrappers EXCEPT ![wrappersPos + 1] =
                            [@ EXCEPT !.offset = offset, !.lineChar = freeze(lineChar)]],
                        wrappersPos + 1, byOffset, offset, lineChar)
    ELSE [wrappers |-> wrappers, pos |-> wrappersPos]

\* Whether onChar lets the two skipping buckets resolve at this character.
IsTrivia(charKind) == charKind = "comment" \/ charKind = "whitespace"
\* The skipping buckets resolving at trivia too.
ResolvesSkipping_Always(charKind) == TRUE
ResolvesSkipping(charKind) == ~IsTrivia(charKind)

\* The cursor after a character.
AdvanceLineChar(lineChar, wrapLine) ==
    IF wrapLine THEN <<lineChar[1] + 1, 1>> ELSE <<lineChar[1], lineChar[2] + 1>>

\* normalizePositions' locals once the handlers are attached.
Normalizer(ps) ==
    [prevCh |-> NoChar,
     fixedOffsetWrappers |-> SortWrappers(Partition(ps, "fixedOffset", 1), TRUE),
     offsetWrappers |-> SortWrappers(Partition(ps, "offset", 1), TRUE),
     fixedLineCharWrappers |-> SortWrappers(Partition(ps, "fixedLineChar", 1), FALSE),
     lineCharWrappers |-> SortWrappers(Partition(ps, "lineChar", 1), FALSE),
     fixedOffsetWrappersPos |-> 0,
     offsetWrappersPos |-> 0,
     fixedLineCharWrappersPos |-> 0,
     lineCharWrappersPos |-> 0,
     currOffset |-> 0,
     currLineChar |-> <<1, 1>>,
     stateMachine |-> Create,
     scanned |-> <<>>,
     delivered |-> <<>>]

\* onChar(ch, nextCh); `scanned` logs what step was given and what it said,
\* `delivered` the chunks of the "data" events.
onChar(n, ch, nextCh) ==
    LET stepped == Step(n.stateMachine, ch, nextCh)
        fo == ResolvePending(n.fixedOffsetWrappers, n.fixedOffsetWrappersPos, TRUE,
                             n.currOffset, n.currLineChar)
        fl == ResolvePending(n.fixedLineCharWrappers, n.fixedLineCharWrappersPos, FALSE,
                             n.currOffset, n.currLineChar)
        skipping == ResolvesSkipping(stepped.charKind)
        o == IF skipping
             THEN ResolvePending(n.offsetWrappers, n.offsetWrappersPos, TRUE,
                                 n.currOffset, n.currLineChar)
             ELSE [wrappers |-> n.offsetWrappers, pos |-> n.offsetWrappersPos]
        lc == IF skipping
              THEN ResolvePending(n.lineCharWrappers, n.lineCharWrappersPos, FALSE,
                                  n.currOffset, n.currLineChar)
              ELSE [wrappers |-> n.lineCharWrappers, pos |-> n.lineCharWrappersPos]
    IN [n EXCEPT !.stateMachine = stepped.machine,
                 !.fixedOffsetWrappers = fo.wrappers, !.fixedOffsetWrappersPos = fo.pos,
                 !.fixedLineCharWrappers = fl.wrappers, !.fixedLineCharWrappersPos = fl.pos,
                 !.offsetWrappers = o.wrappers, !.offsetWrappersPos = o.pos,
                 !.lineCharWrappers = lc.wrappers, !.lineCharWrappersPos = lc.pos,
                 !.currOffset = @ + 1,
                 !.currLineChar = AdvanceLineChar(@, stepped.wrapLine),
                 !.scanned = Append(@, [ch |-> ch, nextCh |-> nextCh,
                                        state |-> n.stateMachine.state,
                                        charKind |-> stepped.charKind,
                                        wrapLine |-> stepped.wrapLine,
                                        after |-> stepped.machine,
                                        lineChar |-> n.currLineChar])]

\* Mutant: the "data" handler starts every chunk without a previous character.
RECURSIVE onData_PerChunk(_, _, _)
onData_PerChunk(n, chunk, first) ==
    IF chunk = <<>> THEN n
    ELSE LET ch == Head(chunk)
             m == IF n.prevCh # NoChar /\ ~first THEN onChar(n, n.prevCh, ch) ELSE n
         IN onData_PerChunk([m EXCEPT !.prevCh = ch], Tail(chunk), FALSE)
onData_ForgetsPrev(n, chunk) == onData_PerChunk(n, chunk, TRUE)

\* The "data" handler's loop over a chunk.
RECURSIVE onData(_, _)
onData(n, chunk) ==
    IF chunk = <<>> THEN n
    ELSE LET ch == Head(chunk)
             m == IF n.prevCh # NoChar THEN onChar(n, n.prevCh, ch) ELSE n
         IN onData([m EXCEPT !.prevCh = ch], Tail(chunk))

\* result[wrapper.returnIndex] = value, on an array that may have holes.
\* result.push(value): the results in bucket order.
SetResult_Push(res, returnIndex, value) ==
    [i \in DOMAIN res \cup {Cardinality(DOMAIN res) + 1} |->
        IF i = Cardinality(DOMAIN res) + 1 THEN value ELSE res[i]]
SetResult(res, returnIndex, value) ==
    [i \in DOMAIN res \cup {returnIndex} |-> IF i = returnIndex THEN value ELSE res[i]]

\* The loops giving the unresolved wrappers the start of the file.
RECURSIVE FillBucket_StartOfFile(_, _, _, _, _)
FillBucket_StartOfFile(res, wrappers, wrappersPos, eofLineChar, i) ==
    IF i > Len(wrappers) THEN res
    ELSE FillBucket_StartOfFile(
            SetResult(res, wrappers[i].returnIndex,
                      IF i <= wrappersPos THEN wrappers[i].lineChar ELSE <<1, 1>>),
            wrappers, wrappersPos, eofLineChar, i + 1)

\* A pair of onEof's loops: the resolved wrappers of a bucket give their
\* lineChar, the others eofLineChar.
RECURSIVE FillBucket(_, _, _, _, _)
FillBucket(res, wrappers, wrappersPos, eofLineChar, i) ==
    IF i > Len(wrappers) THEN res
    ELSE FillBucket(SetResult(res, wrappers[i].returnIndex,
                              IF i <= wrappersPos THEN wrappers[i].lineChar ELSE eofLineChar),
                    wrappers, wrappersPos, eofLineChar, i + 1)

onEof(n) ==
    LET eofLineChar == freeze(n.currLineChar)
        r1 == FillBucket(<<>>, n.fixedOffsetWrappers, n.fixedOffsetWrappersPos, eofLineChar, 1)
        r2 == FillBucket(r1, n.offsetWrappers, n.offsetWrappersPos, eofLineChar, 1)
        r3 == FillBucket(r2, n.fixedLineCharWrappers, n.fixedLineCharWrappersPos, eofLineChar, 1)
    IN FillBucket(r3, n.lineCharWrappers, n.lineCharWrappersPos, eofLineChar, 1)

\* The "close" handler.
onClose(n) == IF n.prevCh # NoChar THEN onChar(n, n.prevCh, NoChar) ELSE n

\* normalizePositions on a whole text delivered as one chunk.
normalizePositions(chars, ps) ==
    IF Len(ps) = 0 THEN <<>> ELSE onEof(onClose(onData(Normalizer(ps), chars)))

\* The text delivered so far: the characters onChar has been given, then the
\* one the "data" handler holds back as prevCh until the next one (or the
\* close) arrives.
Text ==
    [i \in 1..Len(normalizer.scanned) |-> normalizer.scanned[i].ch]
        \o (IF pc = "scanning" /\ normalizer.prevCh # NoChar
            THEN <<normalizer.prevCh>> ELSE <<>>)

\* The characters a source file of the kind at hand is written with.
TemplateChars == {code_Backtick, code_Dollar, code_OpenBrace, code_CloseBrace, code_Slash,
                  code_NewLine, code_Letter}
LineBreakChars == {code_Slash, code_NewLine, code_CarriageReturn, code_SingleQuote,
                   code_DoubleQuote, code_OpenBracket, code_Hash, code_Bang}
PlainChars == {code_Letter, code_Space, code_Slash, code_NewLine}
KindChars == {code_Space, code_Tab, code_NewLine, code_Slash, code_Star, code_DoubleQuote,
              code_Letter}
RegexChars == {code_Slash, code_Backslash, code_OpenBracket, code_CloseBracket, code_Letter,
               code_Backtick, code_Dollar, code_OpenBrace, code_CloseBrace}
Chars ==
    CASE kind = "template" -> TemplateChars
      [] kind = "lines" -> LineBreakChars
      [] kind = "regex" -> RegexChars
      [] kind = "kinds" -> KindChars
      [] OTHER -> PlainChars

\* The longest text of each kind.
MaxText ==
    CASE kind = "template" -> MaxLen
      [] kind = "lines" -> MaxLen - 1
      [] kind = "regex" -> MaxLen - 1
      [] OTHER -> MaxLen - 2

\* The chunks the stream may deliver: single characters, and for the plain
\* files also two characters at once.
Chunks ==
    {<<c>> : c \in Chars}
        \cup (IF kind = "positions" THEN {<<c, d>> : c \in Chars, d \in Chars} ELSE {})

\* The positions asked about: offsets and line/char pairs, skipping
\* (non-negative) and fixed (negative), some of them beyond the end of file.
Queries ==
    {Offset(n) : n \in -2..2}
        \cup {LineChar(1, 1), LineChar(1, 2), LineChar(2, 1)}
        \cup {LineChar(-1, -2), LineChar(-1, 3), LineChar(2, -1)}
PositionLists == {<<>>} \cup {<<p>> : p \in Queries} \cup {<<p, q>> : p \in Queries, q \in Queries}

\* A skipping query for each offset of the longest plain text.
KindPositions == {<<Offset(n)>> : n \in 0..(MaxLen - 3)}

\* The query the lexer's files are read with.
LexerPositions == {<<Offset(0)>>}

TypesUnchanged == UNCHANGED <<relatedTypes, typeTree, hotType>>

ReportStill ==
    UNCHANGED <<kind, minDuration, thresholdDuration, now, partial, trace, minTime, maxTime,
                unclosedStack, spans, nodeModulePaths, span, root, stack, children, pos,
                unclosedEvents, duplicates, tree>>
ReportUnchanged == ReportStill /\ ExtraUnchanged

\* stream.on("data", ...)
StreamData(chunk) ==
    /\ pc = "scanning"
    /\ Len(Text) + Len(chunk) <= MaxText
    /\ normalizer' = [onData(normalizer, chunk) EXCEPT !.delivered = Append(@, chunk)]
    /\ UNCHANGED <<pc, positions, result>>
    /\ ReportUnchanged
    /\ TypesUnchanged

\* stream.on("close", ...)
StreamClose ==
    /\ pc = "scanning"
    /\ normalizer' = onClose(normalizer)
    /\ result' = onEof(normalizer')
    /\ pc' = "normalized"
    /\ UNCHANGED positions
    /\ ReportUnchanged
    /\ TypesUnchanged

\* ------------------------------------------------------------------ get-type-tree.ts, getHotType

\* A type of the types file: its id and the ids its "type"-named properties
\* refer to, in property order.
Type(id, refs) == [id |-> id, types |-> refs]
\* The lists of ids a type may refer to.
RefLists ==
    {<<>>} \cup {<<a>> : a \in 1..MaxTypes} \cup {<<a, b>> : a \in 1..MaxTypes, b \in 1..MaxTypes}
\* The maps from id to type the report may hold: every id, or all but the
\* last (a reference to it then finds no type).
TypeMaps ==
    UNION {[ids -> RefLists] : ids \in {1..MaxTypes, 1..(MaxTypes - 1)}}

\* typeof id === "number" and the map has a type for it.
HasType(types, id) == id \in DOMAIN types
\* ancestorIds.indexOf(id) >= 0, with the depth of the node left out of it.
IsAncestor_OrNested(id, ancestorIds) == id \in Range(ancestorIds) \/ Len(ancestorIds) >= 2
\* ancestorIds.indexOf(id) >= 0
IsAncestor(id, ancestorIds) == id \in Range(ancestorIds)

\* tree[key] = children on an object.
SetKey(object, key, value) ==
    [k \in DOMAIN object \cup {key} |-> IF k = key THEN value ELSE object[k]]

\* getTypeTree's addTypeToTree: the tree with the node of id put in; the key
\* is the type itself, as JSON.stringify writes it.
RECURSIVE addTypeToTree(_, _, _, _)
RECURSIVE AddTypesToTree(_, _, _, _)
addTypeToTree(types, intoTree, id, ancestorIds) ==
    IF ~HasType(types, id) THEN intoTree
    ELSE SetKey(intoTree, Type(id, types[id]),
                IF IsAncestor(id, ancestorIds) THEN <<>>
                ELSE AddTypesToTree(types, <<>>, types[id], Append(ancestorIds, id)))
\* The loop over the ids a type refers to.
AddTypesToTree(types, intoChildren, refs, ancestorIds) ==
    IF refs = <<>> THEN intoChildren
    ELSE AddTypesToTree(types, addTypeToTree(types, intoChildren, Head(refs), ancestorIds),
                        Tail(refs), ancestorIds)
getTypeTree(id, types) == addTypeToTree(types, <<>>, id, <<>>)

\* getHotType's worker: no node (undefined) or one node, as a list.
RECURSIVE worker(_, _, _)
RECURSIVE Workers(_, _, _)
worker(types, id, ancestorIds) ==
    IF ~HasType(types, id) THEN <<>>
    ELSE <<[type |-> Type(id, types[id]),
            children |-> IF IsAncestor(id, ancestorIds) THEN <<>>
                         ELSE Workers(types, types[id], Append(ancestorIds, id))]>>
\* The loop over the ids a type refers to: children.push(child) if (child).
Workers(types, refs, ancestorIds) ==
    IF refs = <<>> THEN <<>>
    ELSE worker(types, Head(refs), ancestorIds) \o Workers(types, Tail(refs), ancestorIds)
getHotType(id, types) == worker(types, id, <<>>)

ScanUnchanged == UNCHANGED <<positions, normalizer, result>>

\* The text report's type tree of the event's type (id 1).
GetTypeTree ==
    /\ pc = "types"
    /\ typeTree' = getTypeTree(1, relatedTypes)
    /\ pc' = "typeTreeDone"
    /\ UNCHANGED <<relatedTypes, hotType>>
    /\ ScanUnchanged
    /\ ReportUnchanged

\* The JSON report's hot type of the event's type (id 1).
GetHotType ==
    /\ pc = "types"
    /\ hotType' = getHotType(1, relatedTypes)
    /\ pc' = "hotTypeDone"
    /\ UNCHANGED <<relatedTypes, typeTree>>
    /\ ScanUnchanged
    /\ ReportUnchanged

\* ------------------------------------------------------------------ get-type-tree.ts, call by call

\* The room of the call stack: more than any walk of MaxTypes types needs.
MaxDepth == MaxTypes + 3

\* A call in progress: the id it was called with, whether the map has a type
\* for it, whether it pushed the id on ancestorIds, the ids its loop has still
\* to visit and its `children` object. The outermost entry is getTypeTree
\* itself, whose object is the tree.
Call(id, known, entered, todo) ==
    [id |-> id, known |-> known, entered |-> entered, todo |-> todo, children |-> <<>>]

\* Mutant: the cycle test looks at the parent only.
IsSuppressed_ParentOnly(id, ids) == ids # <<>> /\ Last(ids) = id
\* ancestorIds.indexOf(id) < 0 fails: the children are suppressed.
IsSuppressed(id, ids) == IsAncestor(id, ids)

\* getTypeTree is called: const tree = {}; addTypeToTree(tree, id, []) is next.
GetTypeTreeCall ==
    /\ pc = "types"
    /\ walk = <<>>
    /\ walk' = <<Call(0, FALSE, FALSE, <<1>>)>>
    /\ ancestorPath' = <<>>
    /\ pc' = "walking"
    /\ UNCHANGED <<relatedTypes, typeTree, hotType>>
    /\ ScanUnchanged
    /\ ReportStill
    /\ BesidesWalk

\* addTypeToTree is called with the next id of the caller's loop, and runs up
\* to its own loop: the type is looked up and, unless the id is among the
\* ancestors, pushed on ancestorIds.
AddTypeToTreeCall ==
    /\ pc = "walking"
    /\ Last(walk).todo # <<>>
    /\ Len(walk) < MaxDepth
    /\ LET id == Head(Last(walk).todo)
           known == HasType(relatedTypes, id)
           entered == known /\ ~IsSuppressed(id, ancestorPath)
       IN /\ walk' = Append([walk EXCEPT ![Len(walk)].todo = Tail(@)],
                            Call(id, known, entered, IF entered THEN relatedTypes[id] ELSE <<>>))
          /\ ancestorPath' = IF entered THEN Append(ancestorPath, id) ELSE ancestorPath
    /\ UNCHANGED <<pc, relatedTypes, typeTree, hotType>>
    /\ ScanUnchanged
    /\ ReportStill
    /\ BesidesWalk

\* addTypeToTree returns: its loop is over, the id is popped and the node is
\* put in the caller's object; a call that found no type has returned at once.
AddTypeToTreeReturn ==
    /\ pc = "walking"
    /\ Len(walk) > 1
    /\ Last(walk).todo = <<>>
    /\ LET call == Last(walk)
           caller == walk[Len(walk) - 1]
       IN /\ walk' = [Front(walk) EXCEPT ![Len(walk) - 1].children =
                         IF call.known
                         THEN SetKey(caller.children, Type(call.id, relatedTypes[call.id]),
                                     call.children)
                         ELSE caller.children]
          /\ ancestorPath' = IF call.entered THEN Front(ancestorPath) ELSE ancestorPath
    /\ UNCHANGED <<pc, relatedTypes, typeTree, hotType>>
    /\ ScanUnchanged
    /\ ReportStill
    /\ BesidesWalk

\* getTypeTree returns the tree.
GetTypeTreeReturn ==
    /\ pc = "walking"
    /\ Len(walk) = 1
    /\ Last(walk).todo = <<>>
    /\ typeTree' = Last(walk).children
    /\ walk' = <<>>
    /\ pc' = "typeTreeDone"
    /\ UNCHANGED <<ancestorPath, relatedTypes, hotType>>
    /\ ScanUnchanged
    /\ ReportStill
    /\ BesidesWalk

\* ------------------------------------------------------------------ simplify-type.ts

\* How many properties a raw record has beyond its id and an empty flags list.
MaxFeatures == 4

\* The names of expandTypeFlags41, bit 0 first.
FlagNames41 ==
    <<"Any", "Unknown", "String", "Number", "Boolean", "Enum", "BigInt", "StringLiteral",
      "NumberLiteral", "BooleanLiteral", "EnumLiteral", "BigIntLiteral", "ESSymbol",
      "UniqueESSymbol", "Void", "Undefined", "Null", "Never", "TypeParameter", "Object",
      "Union", "Intersection", "Index", "IndexedAccess", "Conditional", "Substitution",
      "NonPrimitive", "TemplateLiteral", "StringMapping">>
\* flags41 & 1 << bit
HasBit(flags41, bit) == (flags41 \div (2 ^ bit)) % 2 = 1
RECURSIVE ExpandFrom(_, _)
ExpandFrom(flags41, bit) ==
    IF bit >= Len(FlagNames41) THEN <<>>
    ELSE (IF HasBit(flags41, bit) THEN <<FlagNames41[bit + 1]>> ELSE <<>>)
         \o ExpandFrom(flags41, bit + 1)
\* Mutant: the table is read one bit off.
expandTypeFlags41_OneBitOff(flags41) == ExpandFrom(flags41 \div 2, 0)
expandTypeFlags41(flags41) == ExpandFrom(flags41, 0)

\* An entry of a raw record's flags: a name, or the digits a TS 4.1 trace has.
FlagText(text) == [text |-> text]
FlagDigits(n) == [digits |-> n]
IsDigits(flag) == "digits" \in DOMAIN flag
getTypeFlags(type) ==
    IF Len(type.flags) = 1 /\ IsDigits(type.flags[1])
    THEN expandTypeFlags41(type.flags[1].digits)
    ELSE [i \in DOMAIN type.flags |-> type.flags[i].text]
\* flags.includes(name)
Includes(flags, name) == \E i \in DOMAIN flags : flags[i] = name

\* Mutant: the name is not looked at.
makeAliasedKindIfNamed_Never(type, kindName) == <<kindName>>
\* A kind is kept as the pieces it is concatenated from.
makeAliasedKindIfNamed(type, kindName) ==
    IF type.symbolName # "" THEN <<"Aliased", kindName>> ELSE <<kindName>>
\* firstToUpper(type.name.replace(/^__/, ""))
firstToUpper(name) ==
    CASE name = "__function" -> "Function"
      [] name = "__type" -> "Type"
      [] name = "__class" -> "Class"
      [] name = "__object" -> "Object"
      [] name = "__jsxAttributes" -> "JsxAttributes"
makeAnonymous(type, kindPieces) == [kind |-> kindPieces, name |-> ""]
\* /^__@([^@]+)@\d+$/.exec(type.name), for the names a record may have.
KnownSymbolName(name) == IF name = "__@iterator@34" THEN "iterator" ELSE name

\* Mutant: every instantiated type is taken for its own generic.
instantiatedIsSelf_Always(type) == TRUE
\* type.instantiatedType === type.id
instantiatedIsSelf(type) == type.instantiatedType = type.id

\* The rules that go by the flags, the name and the display.
byFlagsAndName(type, flags) ==
    LET name == type.symbolName
    IN IF Includes(flags, "StringLiteral") THEN [kind |-> <<"StringLiteral">>, name |-> name]
       ELSE IF Includes(flags, "NumberLiteral") THEN [kind |-> <<"NumberLiteral">>, name |-> name]
       ELSE IF Includes(flags, "BigIntLiteral") THEN [kind |-> <<"BigIntLiteral">>, name |-> name]
       ELSE IF Includes(flags, "TypeParameter") THEN [kind |-> <<"TypeParameter">>, name |-> name]
       ELSE IF Includes(flags, "UniqueESSymbol") THEN [kind |-> <<"Unique">>, name |-> name]
       ELSE IF name \in {"__@iterator@34", "__@unscopables"}
            THEN [kind |-> <<"KnownSymbol">>, name |-> KnownSymbolName(name)]
       ELSE IF name \in {"__function", "__type", "__class", "__object"}
            THEN makeAnonymous(type, <<"Anonymous", firstToUpper(name)>>)
       ELSE IF name = "__jsxAttributes" THEN makeAnonymous(type, <<"JsxAttributesType">>)
       ELSE IF Includes(flags, "Object") /\ name # "" THEN [kind |-> <<"Object">>, name |-> name]
       ELSE IF type.display = "(props: P) => Element"
            THEN [kind |-> <<"JsxElementSignature">>, name |-> name]
       ELSE [kind |-> <<"Other">>, name |-> name]

\* simplifyTypeHelper: the kind and the name of the simplified type. A property
\* the record lacks is "" (a string), 0 (an id), FALSE (a flag) or <<>> (a
\* list, which is <<list>> when the record has it).
simplifyTypeHelper(type) ==
    LET name == type.symbolName
        isDestructuring == type.destructuringPattern
        flags == getTypeFlags(type)
    IN IF type.intrinsicName # "" THEN [kind |-> <<"Intrinsic">>, name |-> type.intrinsicName]
       ELSE IF type.unionTypes # <<>>
            THEN [kind |-> makeAliasedKindIfNamed(type, "Union"), name |-> name]
       ELSE IF type.intersectionTypes # <<>>
            THEN [kind |-> makeAliasedKindIfNamed(type, "Intersection"), name |-> name]
       ELSE IF type.indexedAccessObjectType # 0
            THEN [kind |-> makeAliasedKindIfNamed(type, "IndexedAccess"), name |-> name]
       ELSE IF type.keyofType # 0
            THEN [kind |-> makeAliasedKindIfNamed(type, "IndexType"), name |-> name]
       ELSE IF type.isTuple
            THEN [kind |-> makeAliasedKindIfNamed(type, "Tuple"), name |-> name]
       ELSE IF type.conditionalCheckType # 0
            THEN [kind |-> makeAliasedKindIfNamed(type, "ConditionalType"), name |-> name]
       ELSE IF type.substitutionBaseType # 0
            THEN [kind |-> makeAliasedKindIfNamed(type, "SubstitutionType"), name |-> name]
       ELSE IF type.reverseMappedSourceType # 0
            THEN [kind |-> makeAliasedKindIfNamed(type, "ReverseMappedType"), name |-> name]
       ELSE IF type.aliasTypeArguments # <<>>
            THEN [kind |-> <<"GenericTypeAlias">>, name |-> name]
       ELSE IF type.instantiatedType # 0 /\ type.typeArguments # <<>>
                  /\ Len(type.typeArguments[1]) # 0
            THEN [kind |-> IF instantiatedIsSelf(type) THEN <<"GenericType">>
                           ELSE <<"GenericInstantiation">>,
                  name |-> name]
       ELSE IF isDestructuring THEN [kind |-> <<"Destructuring">>, name |-> name]
       ELSE byFlagsAndName(type, flags)
simplifyType(type) == simplifyTypeHelper(type)

\* What a raw record of the types file may have beyond its id.
Features ==
    {"intrinsicName", "unionTypes", "intersectionTypes", "indexedAccessObjectType", "keyofType",
     "isTuple", "conditionalCheckType", "substitutionBaseType", "reverseMappedSourceType",
     "aliasTypeArguments", "instantiatedType self", "instantiatedType other",
     "typeArguments empty", "typeArguments", "destructuringPattern", "digits",
     "StringLiteral", "NumberLiteral", "BigIntLiteral", "TypeParameter", "UniqueESSymbol",
     "Object", "Union", "__@iterator@34", "__@unscopables", "__function", "__class",
     "__jsxAttributes", "Foo", "display props"}
RECURSIVE FeatureSets(_)
FeatureSets(n) ==
    IF n = 0 THEN {{}}
    ELSE LET fewer == FeatureSets(n - 1)
         IN fewer \cup {fs \cup {f} : fs \in fewer, f \in Features}
\* The flags among the features, in the order of the trace's list, and as the
\* number a TS 4.1 trace writes for them.
RECURSIVE FlagsOf(_, _)
FlagsOf(fs, bit) ==
    IF bit >= Len(FlagNames41) THEN <<>>
    ELSE (IF FlagNames41[bit + 1] \in fs THEN <<FlagText(FlagNames41[bit + 1])>> ELSE <<>>)
         \o FlagsOf(fs, bit + 1)
RECURSIVE Flags41Of(_, _)
Flags41Of(fs, bit) ==
    IF bit >= Len(FlagNames41) THEN 0
    ELSE (IF FlagNames41[bit + 1] \in fs THEN 2 ^ bit ELSE 0) + Flags41Of(fs, bit + 1)
SymbolNames == <<"__@iterator@34", "__@unscopables", "__function", "__class", "__jsxAttributes", "Foo">>
SymbolNameOf(fs) ==
    IF \E i \in DOMAIN SymbolNames : SymbolNames[i] \in fs
    THEN SymbolNames[CHOOSE i \in DOMAIN SymbolNames :
                        SymbolNames[i] \in fs /\ \A j \in 1..(i - 1) : SymbolNames[j] \notin fs]
    ELSE ""
\* The record of id 1 with the features fs; the types it refers to have id 2.
RawType(fs) ==
    [id |-> 1,
     intrinsicName |-> IF "intrinsicName" \in fs THEN "any" ELSE "",
     symbolName |-> SymbolNameOf(fs),
     unionTypes |-> IF "unionTypes" \in fs THEN <<<<2, 2>>>> ELSE <<>>,
     intersectionTypes |-> IF "intersectionTypes" \in fs THEN <<<<2>>>> ELSE <<>>,
     indexedAccessObjectType |-> IF "indexedAccessObjectType" \in fs THEN 2 ELSE 0,
     keyofType |-> IF "keyofType" \in fs THEN 2 ELSE 0,
     isTuple |-> "isTuple" \in fs,
     conditionalCheckType |-> IF "conditionalCheckType" \in fs THEN 2 ELSE 0,
     substitutionBaseType |-> IF "substitutionBaseType" \in fs THEN 2 ELSE 0,
     reverseMappedSourceType |-> IF "reverseMappedSourceType" \in fs THEN 2 ELSE 0,
     aliasTypeArguments |-> IF "aliasTypeArguments" \in fs THEN <<<<2>>>> ELSE <<>>,
     instantiatedType |-> IF "instantiatedType self" \in fs THEN 1
                          ELSE IF "instantiatedType other" \in fs THEN 2 ELSE 0,
     typeArguments |-> IF "typeArguments" \in fs THEN <<<<2>>>>
                       ELSE IF "typeArguments empty" \in fs THEN <<<<>>>> ELSE <<>>,
     destructuringPattern |-> "destructuringPattern" \in fs,
     flags |-> IF "digits" \in fs THEN <<FlagDigits(Flags41Of(fs, 0))>> ELSE FlagsOf(fs, 0),
     display |-> IF "display props" \in fs THEN "(props: P) => Element" ELSE "Foo"]
\* The records of at most n features.
RawTypes(n) == {RawType(fs) : fs \in FeatureSets(n)}

\* The sets of at most n flags of the legacy table.
RECURSIVE FlagSets(_)
FlagSets(n) ==
    IF n = 0 THEN {{}}
    ELSE LET fewer == FlagSets(n - 1)
         IN fewer \cup {fs \cup {FlagNames41[i]} : fs \in fewer, i \in DOMAIN FlagNames41}
\* The records that have flags only, named or not, the flags written as
\* names or as the number of a TS 4.1 trace.
FlagTypes(n) ==
    {RawType(fs \cup more) : fs \in FlagSets(n),
                             more \in {{}, {"Foo"}, {"digits"}, {"Foo", "digits"}}}

\* simplify(types[id - 1]), getRelatedTypes' and getTypeTree's call.
Simplify ==
    /\ pc = "raw"
    /\ simplified' = simplifyType(rawType)
    /\ pc' = "simplified"
    /\ UNCHANGED rawType
    /\ ReportStill
    /\ ScanUnchanged
    /\ TypesUnchanged
    /\ BesidesSimplify

\* ------------------------------------------------------------------ analyze-trace-file.ts, getHotSpots

EventCat(event) == IF "cat" \in DOMAIN event THEN event.cat ELSE ""
EventPath(event) == IF "path" \in DOMAIN event THEN event.path ELSE NoFile
EventPos(event) == IF "pos" \in DOMAIN event THEN event.pos ELSE 0
EventEnd(event) == IF "end" \in DOMAIN event THEN event.end ELSE 0

\* How long a unit of the trace's clock is, in microseconds.
TickMicros == 500
\* Math.round((curr.end - curr.start) / 1000)
TimeMs(duration) == (duration * TickMicros + 500) \div 1000

\* path.normalize, on paths that are normalized already.
formatPath(p) == p
\* unmangleCamelCase, on the names the traces have.
unmangleCamelCase(name) ==
    CASE name = "checkExpression" -> "Check expression"
      [] name = "checkSourceFile" -> "Check source file"
      [] OTHER -> name

\* The source file the events refer to, as the reader finds it.
NoSource == [exists |-> FALSE, chars |-> <<>>]
Source(chars) == [exists |-> TRUE, chars |-> chars]

\* The nodes of the tree below n in the lists kids, n included.
RECURSIVE NodesBelow(_, _)
NodesBelow(kids, n) == {n} \cup UNION {NodesBelow(kids, kids[n][i]) : i \in DOMAIN kids[n]}

\* getRelatedTypes awaits getTypes for an event that compares types.
HasTypeEvent ==
    \E n \in NodesBelow(children, 0) \ {0} :
        spans[n].event.name \in {"structuredTypeRelatedTo", "getVariancesWorker"}

\* getNormalizedPositions' recordPositions: the positions met, each with its
\* file, in the order they are pushed.
RECURSIVE recordPositions(_, _, _)
RECURSIVE RecordPositionsOf(_, _, _)
recordPositions(kids, n, currentFile) ==
    LET event == spans[n].event
        isCheck == n # 0 /\ event.name # "checkSourceFile" /\ EventCat(event) = "check"
        file == IF n = 0 THEN currentFile
                ELSE IF event.name = "checkSourceFile" THEN EventPath(event)
                ELSE IF isCheck /\ EventPath(event) # NoFile THEN EventPath(event)
                ELSE currentFile
        own == IF isCheck /\ file # NoFile
               THEN (IF EventPos(event) # 0
                     THEN <<[path |-> file, position |-> Offset(EventPos(event))]>> ELSE <<>>)
                    \o (IF EventEnd(event) # 0
                        THEN <<[path |-> file, position |-> Offset(-EventEnd(event))]>> ELSE <<>>)
               ELSE <<>>
    IN own \o RecordPositionsOf(kids, kids[n], file)
RecordPositionsOf(kids, list, currentFile) ==
    IF list = <<>> THEN <<>>
    ELSE recordPositions(kids, Head(list), currentFile)
         \o RecordPositionsOf(kids, Tail(list), currentFile)

\* Math.abs(rawPosition).toString(), the key of an offset in a file's map.
PositionKey(position) == Abs(position.value[1])

LastOf(indices) == CHOOSE i \in indices : \A j \in indices : j <= i
\* pathMap.set(key, normalizedPositions[i]) for i = 0, 1, ...: a later entry
\* replaces an earlier one with the same key.
PathMap(rawPositions, normalizedPositions) ==
    [key \in {PositionKey(rawPositions[i]) : i \in DOMAIN rawPositions} |->
        normalizedPositions[LastOf({i \in DOMAIN rawPositions : PositionKey(rawPositions[i]) = key})]]

\* getNormalizedPositions: for every file that can be read, the map from key
\* to normalized position; a file that cannot be read has no map.
getNormalizedPositions(kids, sourceRead) ==
    LET recorded == recordPositions(kids, 0, NoFile)
        paths == {recorded[i].path : i \in DOMAIN recorded}
        RawPositions(p) ==
            LET OfPath(r) == r.path = p
                mine == SelectSeq(recorded, OfPath)
            IN [i \in DOMAIN mine |-> mine[i].position]
    IN [p \in {q \in paths : sourceRead.exists} |->
           PathMap(RawPositions(p), normalizePositions(sourceRead.chars, RawPositions(p)))]

\* curr.children.sort((a, b) => (b.end - b.start) - (a.end - a.start)), a
\* stable sort.
InsertByDuration(sorted, n) ==
    LET k == Cardinality({i \in DOMAIN sorted : NodeDuration(sorted[i]) >= NodeDuration(n)})
    IN SubSeq(sorted, 1, k) \o <<n>> \o SubSeq(sorted, k + 1, Len(sorted))
RECURSIVE SortByDuration(_)
SortByDuration(list) ==
    IF list = <<>> THEN <<>> ELSE InsertByDuration(SortByDuration(Front(list)), Last(list))

\* makeHotFrame: no frame (undefined) or one frame, as a list. `node` is the
\* span the frame was made of.
makeHotFrame(curr, currentFile, timeMs, frames, pmap) ==
    LET event == spans[curr].event
        Frame(description, path, location) ==
            [description |-> description, timeMs |-> timeMs, path |-> path,
             location |-> location, children |-> frames, node |-> curr]
    IN CASE event.name = "checkSourceFile" ->
               <<Frame(<<"Check file ", formatPath(currentFile)>>, formatPath(currentFile), <<>>)>>
         [] event.name = "structuredTypeRelatedTo" -> <<Frame(<<"Compare types">>, NoFile, <<>>)>>
         [] event.name = "getVariancesWorker" ->
               <<Frame(<<"Determine variance of type">>, NoFile, <<>>)>>
         [] OTHER ->
               IF EventCat(event) = "check" /\ EventPos(event) # 0 /\ EventEnd(event) # 0
               THEN <<Frame(<<unmangleCamelCase(event.name)>>, formatPath(currentFile),
                            IF currentFile \in DOMAIN pmap
                            THEN LET updatedPos == pmap[currentFile][EventPos(event)]
                                     updatedEnd == pmap[currentFile][EventEnd(event)]
                                 IN [startLine |-> updatedPos[1], startChar |-> updatedPos[2],
                                     endLine |-> updatedEnd[1], endChar |-> updatedEnd[2]]
                            ELSE [startOffset |-> EventPos(event), endOffset |-> EventEnd(event)])>>
               ELSE <<>>

\* Mutant: a node without a frame takes its descendants' frames with it.
WithoutFrame_Nothing(frames) == <<>>
\* return children: what getHotSpotsWorker returns for a node without a frame.
WithoutFrame(frames) == frames

\* getHotSpotsWorker on the node curr of the tree whose lists of children are
\* kids (sorted already).
RECURSIVE getHotSpotsWorker(_, _, _, _)
RECURSIVE HotSpotsOf(_, _, _, _)
getHotSpotsWorker(kids, curr, currentFile, pmap) ==
    LET file == IF curr # 0 /\ EventCat(spans[curr].event) = "check"
                              /\ EventPath(spans[curr].event) # NoFile
                THEN EventPath(spans[curr].event) ELSE currentFile
        timeMs == TimeMs(NodeDuration(curr))
        frames == HotSpotsOf(kids, kids[curr], file, pmap)
        hotFrame == IF curr # 0 THEN makeHotFrame(curr, file, timeMs, frames, pmap) ELSE <<>>
    IN IF hotFrame # <<>> THEN hotFrame ELSE WithoutFrame(frames)
HotSpotsOf(kids, list, currentFile, pmap) ==
    IF list = <<>> THEN <<>>
    ELSE getHotSpotsWorker(kids, Head(list), currentFile, pmap)
         \o HotSpotsOf(kids, Tail(list), currentFile, pmap)

\* getHotSpots, called by reportHighlights with the types file's path (""
\* when none was given): the types are read, the positions normalized and the
\* frames made. getTypes rejects when the types file cannot be read, and
\* nothing catches it: reportHighlights rejects.
GetHotSpots(path, canRead, sourceRead) ==
    /\ pc = "json"
    /\ typesPath' = path
    /\ typesReadable' = canRead
    /\ sourceFile' = sourceRead
    /\ IF path # "" /\ ~canRead
       THEN /\ pc' = "rejected"
            /\ UNCHANGED <<positionMap, hotSpots, children>>
       ELSE /\ positionMap' = getNormalizedPositions(children, sourceRead)
            /\ children' = [n \in DOMAIN children |-> SortByDuration(children[n])]
            /\ hotSpots' = getHotSpotsWorker(children', 0, NoFile, positionMap')
            /\ pc' = "hotSpots"
    /\ UNCHANGED printable
    /\ UNCHANGED <<kind, minDuration, thresholdDuration, spans, root, stack, pos, unclosedStack,
                   unclosedEvents, duplicates, tree>>
    /\ ParseUnchanged
    /\ ScanUnchanged
    /\ TypesUnchanged
    /\ BesidesHot

\* An object of the text report: its keys in insertion order, each with the
\* object it holds; `node` remembers the span the entry was made for.
\* Object.assign(target, source): a key target has already keeps its place
\* and takes source's value, a new key is appended.
AssignKey(object, entry) ==
    IF \E i \in DOMAIN object : object[i].key = entry.key
    THEN [i \in DOMAIN object |-> IF object[i].key = entry.key THEN entry ELSE object[i]]
    ELSE Append(object, entry)
RECURSIVE ObjectAssign(_, _)
ObjectAssign(object, source) ==
    IF source = <<>> THEN object
    ELSE ObjectAssign(AssignKey(object, Head(source)), Tail(source))

\* eventToString of makePrintableTree, without a types file: the pieces of
\* the string, <<>> for undefined.
eventToString(curr, currentFile, showCurrentFile, pmap) ==
    LET event == spans[curr].event
    IN CASE event.name = "checkSourceFile" -> <<"Check file ", formatPath(currentFile)>>
         [] event.name = "structuredTypeRelatedTo" -> <<"Compare types">>
         [] event.name = "getVariancesWorker" -> <<"Determine variance of type">>
         [] OTHER ->
               IF EventCat(event) = "check" /\ EventPos(event) # 0 /\ EventEnd(event) # 0
               THEN LET currentFileClause ==
                            IF showCurrentFile THEN <<" in ", formatPath(currentFile)>> ELSE <<>>
                    IN <<unmangleCamelCase(event.name)>> \o currentFileClause
                       \o (IF currentFile \in DOMAIN pmap
                           THEN <<" from (line, char) ", pmap[currentFile][EventPos(event)],
                                  " to (line, char) ", pmap[currentFile][EventEnd(event)]>>
                           ELSE <<" from offset ", EventPos(event),
                                  " to offset ", EventEnd(event)>>)
               ELSE <<>>

\* The key result[...] is set under: the event's string and the rounded time.
EntryKey(curr, eventStr, timeMs) == <<eventStr, timeMs>>

\* makePrintableTree on the node curr of the tree whose lists of children are
\* kids (sorted already).
RECURSIVE makePrintableTree(_, _, _, _)
RECURSIVE PrintableOf(_, _, _, _, _)
makePrintableTree(kids, curr, currentFile, pmap) ==
    LET isCheck == curr # 0 /\ EventCat(spans[curr].event) = "check"
        path == IF isCheck THEN EventPath(spans[curr].event) ELSE NoFile
        showCurrentFile == path # NoFile /\ path # currentFile
        file == IF path # NoFile THEN path ELSE currentFile
        childTree == PrintableOf(kids, kids[curr], file, pmap, <<>>)
        eventStr == IF curr # 0 THEN eventToString(curr, file, showCurrentFile, pmap) ELSE <<>>
    IN IF eventStr # <<>>
       THEN <<[key |-> EntryKey(curr, eventStr, TimeMs(NodeDuration(curr))),
               value |-> childTree, node |-> curr]>>
       ELSE childTree
PrintableOf(kids, list, currentFile, pmap, childTree) ==
    IF list = <<>> THEN childTree
    ELSE PrintableOf(kids, Tail(list), currentFile, pmap,
                     ObjectAssign(childTree, makePrintableTree(kids, Head(list), currentFile, pmap)))

\* printHotStacks, called by the text report's reportHighlights without a
\* types file once the unterminated events are printed: the positions are
\* normalized and the tree is made, every list of children sorted in place.
PrintHotStacks(sourceRead) ==
    /\ pc = "text"
    /\ sourceFile' = sourceRead
    /\ positionMap' = getNormalizedPositions(children, sourceRead)
    /\ children' = [n \in DOMAIN children |-> SortByDuration(children[n])]
    /\ printable' = makePrintableTree(children', 0, NoFile, positionMap')
    /\ pc' = "hotStacks"
    /\ UNCHANGED <<typesPath, typesReadable, hotSpots>>
    /\ UNCHANGED <<kind, minDuration, thresholdDuration, spans, root, stack, pos, unclosedStack,
                   unclosedEvents, duplicates, tree>>
    /\ ParseUnchanged
    /\ ScanUnchanged
    /\ TypesUnchanged
    /\ BesidesHot

\* The texts of the source file.
RECURSIVE TextsOver(_, _)
TextsOver(alphabet, n) ==
    IF n = 0 THEN {<<>>} ELSE {Append(t, c) : t \in TextsOver(alphabet, n - 1), c \in alphabet}
Sources ==
    IF kind = "ranges"
    THEN {NoSource} \cup {Source(t) : t \in TextsOver({code_Letter, code_Space}, MaxLen - 2)}
    ELSE {NoSource}
\* The times an element may be written at.
Times == IF kind \in {"hot", "stacks"} THEN 0..(MaxTs + 2) ELSE 0..MaxTs

\* ------------------------------------------------------------------ count-import-expressions.ts

code_OpenParen == 40
code_CloseParen == 41
\* const target = "import(", as code units.
target == <<105, 109, 112, 111, 114, 116, code_OpenParen>>

\* frequency: the names that have a count, each with its count.
NoFrequency == [name \in {} |-> 0]
\* if (!frequency.has(name)) frequency.set(name, 0); frequency.set(name, frequency.get(name)! + 1)
CountName(frequency, name) ==
    [n \in DOMAIN frequency \cup {name} |->
        IF n = name THEN (IF name \in DOMAIN frequency THEN frequency[name] ELSE 0) + 1
        ELSE frequency[n]]

\* countImportExpressions' locals once the handlers are attached; `scanned`
\* logs what step was given and what it said.
Counter ==
    [prevCh |-> NoChar,
     targetPos |-> 0,
     buf |-> <<>>,
     frequency |-> NoFrequency,
     stateMachine |-> Create,
     scanned |-> <<>>,
     delivered |-> <<>>,
     chunks |-> 0]

\* The branch of onChar for targetPos === target.length.
CountAfterTarget(c, ch, charKind) ==
    IF charKind = "string" THEN [c EXCEPT !.buf = Append(@, ch)]
    ELSE [c EXCEPT !.frequency = CountName(@, c.buf), !.targetPos = 0, !.buf = <<>>]

\* onChar(ch, nextCh) of countImportExpressions.
countOnChar(c, ch, nextCh) ==
    LET stepped == Step(c.stateMachine, ch, nextCh)
        d == [c EXCEPT !.stateMachine = stepped.machine,
                       !.scanned = Append(@, [ch |-> ch, nextCh |-> nextCh,
                                              charKind |-> stepped.charKind])]
    IN IF c.targetPos = Len(target) THEN CountAfterTarget(d, ch, stepped.charKind)
       ELSE IF stepped.charKind = "code" /\ ch = target[c.targetPos + 1]
       THEN [d EXCEPT !.targetPos = @ + 1]
       ELSE [d EXCEPT !.targetPos = 0]

\* stream.on("data", ...) of countImportExpressions.
RECURSIVE countOnData(_, _)
countOnData(c, chunk) ==
    IF chunk = <<>> THEN c
    ELSE LET ch == Head(chunk)
             d == IF c.prevCh # NoChar THEN countOnChar(c, c.prevCh, ch) ELSE c
         IN countOnData([d EXCEPT !.prevCh = ch], Tail(chunk))

\* stream.on("close", ...) up to onEof.
countOnClose(c) == IF c.prevCh # NoChar THEN countOnChar(c, c.prevCh, NoChar) ELSE c

\* The chunks of an emitted file: the call of import cut at every place a
\* stream may cut it, string literals, and what else may follow the paren.
ImportChunks ==
    {target, SubSeq(target, 1, 3), SubSeq(target, 4, Len(target)),
     <<code_DoubleQuote, code_Letter, code_DoubleQuote>>,
     <<code_SingleQuote, code_Letter, code_Letter, code_SingleQuote>>,
     <<code_DoubleQuote>>,
     <<code_Letter>>, <<code_CloseParen>>, <<code_Space>>, <<code_Slash, code_Slash>>,
     <<code_NewLine>>}
\* How many chunks a file has at most.
MaxChunks == MaxLen - 2

CounterStill ==
    /\ ReportStill
    /\ ScanUnchanged
    /\ TypesUnchanged
    /\ BesidesCounter

\* stream.on("data", ...)
CountData(chunk) ==
    /\ pc = "counting"
    /\ counter.chunks < MaxChunks
    /\ counter' = [countOnData(counter, chunk) EXCEPT !.chunks = @ + 1,
                                                       !.delivered = Append(@, chunk)]
    /\ UNCHANGED pc
    /\ CounterStill

\* stream.on("close", ...): the last character, then onEof resolves with
\* frequency.
CountClose ==
    /\ pc = "counting"
    /\ counter' = countOnClose(counter)
    /\ pc' = "counted"
    /\ CounterStill

\* ------------------------------------------------------------------ analyze-trace-dir.ts

\* How many projects the trace directory may hold.
MaxProjects == 2

\* What a worker writes is kept as the pieces it is written in.
Whitespace == {"\n", " "}
\* String.prototype.trim
RECURSIVE TrimStart(_)
TrimStart(pieces) ==
    IF pieces # <<>> /\ Head(pieces) \in Whitespace THEN TrimStart(Tail(pieces)) ELSE pieces
RECURSIVE TrimEnd(_)
TrimEnd(pieces) ==
    IF pieces # <<>> /\ Last(pieces) \in Whitespace THEN TrimEnd(Front(pieces)) ELSE pieces
Trim(pieces) == TrimEnd(TrimStart(pieces))

\* What a worker may have written to its stdout when it exits: nothing, the
\* JSON report, or the text report with a hot spot of 2 ms.
JsonReport == "{\"hotSpots\": []}"
TextReport == "Hot Spots: Check file a.ts (2ms)"
Stdouts == {<<>>, <<JsonReport, "\n">>, <<TextReport, "\n">>}
\* ... and to its stderr: nothing, an empty line, or a message.
Stderrs == {<<>>, <<"\n">>, <<"Error: cannot read", "\n">>}
\* The code and the signal of the "exit" event: one of them is null.
NoCode == -1
NoSignal == ""
Exits == {[code |-> c, signal |-> NoSignal] : c \in 0..2} \cup {[code |-> NoCode, signal |-> "SIGKILL"]}

\* JSON.parse(result.stdout) returns.
IsJson(stdout) == stdout = <<JsonReport>>
\* result.stdout.match(/\((\d+)[ ]*ms\)/): the score, 0 without a match.
Score(stdout) == IF stdout = <<TextReport>> THEN 2 ELSE 0

NoResult == [project |-> 0]
\* The ProjectResult analyzeProject resolves with; exitCode and signal are
\* NoCode and NoSignal when undefined.
ProjectResult(project, stdout, stderr, code, signal) ==
    [project |-> project, stdout |-> Trim(stdout), stderr |-> Trim(stderr),
     exitCode |-> code, signal |-> signal]

\* Mutant: an exit code of 1 is taken for an error too.
IsErrorCode_NonZero(exitCode) == exitCode # 0
\* result.exitCode !== 1, for a truthy exit code.
IsErrorCode(exitCode) == exitCode # 1

\* The loop of printResultsAsJson over the results.
RECURSIVE ClassifyJson(_, _)
ClassifyJson(results, acc) ==
    IF results = <<>> THEN acc
    ELSE LET r == Head(results)
             next ==
                 IF r.stderr # <<>> \/ r.signal # NoSignal
                 THEN [acc EXCEPT !.hadErrors = Append(@, r)]
                 ELSE IF r.exitCode \notin {0, NoCode}
                 THEN IF IsErrorCode(r.exitCode)
                      THEN [acc EXCEPT !.hadErrors = Append(@, r)] ELSE acc
                 ELSE IF IsJson(r.stdout)
                 THEN [acc EXCEPT !.hadNoErrors = Append(@, r), !.sawHighlights = TRUE]
                 ELSE [acc EXCEPT !.hadErrors =
                          Append(@, [r EXCEPT !.stderr = <<"Failed to parse project result JSON">>])]
         IN ClassifyJson(Tail(results), next)
printResultsAsJson(results) ==
    LET c == ClassifyJson(results, [hadErrors |-> <<>>, hadNoErrors |-> <<>>, sawHighlights |-> FALSE])
    IN [errors |-> [i \in DOMAIN c.hadErrors |-> c.hadErrors[i].project],
        highlights |-> [i \in DOMAIN c.hadNoErrors |-> c.hadNoErrors[i].project],
        nothing |-> 0,
        code |-> IF Len(c.hadErrors) > 0 THEN 2 ELSE IF c.sawHighlights THEN 0 ELSE 1]

\* The loop of printResultsAsText over the results.
RECURSIVE ClassifyText(_, _)
ClassifyText(results, acc) ==
    IF results = <<>> THEN acc
    ELSE LET r == Head(results)
             next ==
                 IF r.stderr # <<>> \/ r.signal # NoSignal
                 THEN [acc EXCEPT !.hadErrors = Append(@, r)]
                 ELSE IF r.exitCode \notin {0, NoCode}
                 THEN IF IsErrorCode(r.exitCode)
                      THEN [acc EXCEPT !.hadErrors = Append(@, r)] ELSE acc
                 ELSE [acc EXCEPT !.hadHighlights = Append(@, [result |-> r, score |-> Score(r.stdout)])]
         IN ClassifyText(Tail(results), next)
\* hadHighlights.sort((a, b) => b.score - a.score || a.project.tracePath.localeCompare(...));
\* the trace paths are in the order of the projects.
InsertByScore(sorted, h) ==
    LET k == Cardinality({i \in DOMAIN sorted :
                 sorted[i].score > h.score
                 \/ (sorted[i].score = h.score /\ sorted[i].result.project <= h.result.project)})
    IN SubSeq(sorted, 1, k) \o <<h>> \o SubSeq(sorted, k + 1, Len(sorted))
RECURSIVE SortByScore(_)
SortByScore(list) ==
    IF list = <<>> THEN <<>> ELSE InsertByScore(SortByScore(Front(list)), Last(list))
printResultsAsText(results) ==
    LET c == ClassifyText(results, [hadHighlights |-> <<>>, hadErrors |-> <<>>])
        sorted == SortByScore(c.hadHighlights)
    IN [errors |-> [i \in DOMAIN c.hadErrors |-> c.hadErrors[i].project],
        highlights |-> [i \in DOMAIN sorted |-> sorted[i].result.project],
        nothing |-> Len(results) - (Len(c.hadHighlights) + Len(c.hadErrors)),
        code |-> IF Len(c.hadErrors) > 0 THEN 2 ELSE IF Len(c.hadHighlights) > 0 THEN 0 ELSE 1]

NoReport == [errors |-> <<>>, highlights |-> <<>>, nothing |-> 0, code |-> NoCode]
\* The driver when main is called: n projects, argv.json, and room for
\* `limit` workers at a time; no worker is forked yet.
Driver(n, json, limit) ==
    [json |-> json, limit |-> limit,
     worker |-> [p \in 1..n |-> "queued"],
     written |-> [p \in 1..n |-> [stdout |-> <<>>, stderr |-> <<>>]],
     pipe |-> [p \in 1..n |-> [stdout |-> <<>>, stderr |-> <<>>]],
     locals |-> [p \in 1..n |-> [stdout |-> <<>>, stderr |-> <<>>]],
     results |-> [p \in 1..n |-> NoResult],
     report |-> NoReport,
     exitCode |-> NoCode]
Projects == DOMAIN driver.worker
Running == {p \in Projects : driver.worker[p] = "running"}

DriverStill ==
    /\ ReportStill
    /\ ScanUnchanged
    /\ TypesUnchanged
    /\ BesidesDriver

\* limit(analyzeProject, p) starts the next project in line when a place is
\* free: the worker is forked.
Fork(p) ==
    /\ pc = "forking"
    /\ driver.worker[p] = "queued"
    /\ \A q \in 1..(p - 1) : driver.worker[q] # "queued"
    /\ Cardinality(Running) < driver.limit
    /\ driver' = [driver EXCEPT !.worker[p] = "running"]
    /\ UNCHANGED pc
    /\ DriverStill

\* cp.fork fails to start the worker. It throws, analyzeProject's promise
\* rejects and main's catch exits with 2; or the child emits "error", which
\* nothing listens to, and the driver dies of the uncaught exception with
\* code 1. No result is printed either way.
ForkFails(p, thrown) ==
    /\ pc = "forking"
    /\ driver.worker[p] = "queued"
    /\ \A q \in 1..(p - 1) : driver.worker[q] # "queued"
    /\ Cardinality(Running) < driver.limit
    /\ driver' = [driver EXCEPT !.worker[p] = "failed", !.exitCode = IF thrown THEN 2 ELSE 1]
    /\ pc' = "crashed"
    /\ DriverStill

\* The worker writes its report and its messages, before it ends: the pieces
\* wait in the pipes of its stdout and its stderr (`written` remembers them).
ChildWrites(p, stdout, stderr) ==
    /\ pc = "forking"
    /\ driver.worker[p] = "running"
    /\ driver.written[p] = [stdout |-> <<>>, stderr |-> <<>>]
    /\ stdout # <<>> \/ stderr # <<>>
    /\ driver' = [driver EXCEPT
                    !.written[p] = [stdout |-> stdout, stderr |-> stderr],
                    !.pipe[p] = [stdout |-> stdout, stderr |-> stderr]]
    /\ UNCHANGED pc
    /\ DriverStill

\* child.stdout.on("data", chunk => stdout += chunk) and the same of stderr:
\* the next piece of the pipe is added to analyzeProject's local. The pipes
\* are read as long as they hold something, also once the worker has ended.
ChildData(p, stream) ==
    /\ pc = "forking"
    /\ driver.worker[p] \in {"running", "exited"}
    /\ driver.pipe[p][stream] # <<>>
    /\ driver' = [driver EXCEPT
                    !.locals[p][stream] = Append(@, Head(driver.pipe[p][stream])),
                    !.pipe[p][stream] = Tail(@)]
    /\ UNCHANGED pc
    /\ DriverStill

\* child.on("exit", ...): the worker has ended with a code or a signal;
\* analyzeProject resolves with what its locals hold.
ChildExit(p, exit) ==
    /\ pc = "forking"
    /\ driver.worker[p] = "running"
    /\ driver' = [driver EXCEPT
                    !.worker[p] = "exited",
                    !.results[p] = ProjectResult(p, driver.locals[p].stdout,
                                                 driver.locals[p].stderr, exit.code, exit.signal)]
    /\ UNCHANGED pc
    /\ DriverStill

\* Promise.all has every result: main prints them and exits with the code.
PrintResults ==
    /\ pc = "forking"
    /\ \A p \in Projects : driver.worker[p] = "exited"
    /\ LET results == [p \in 1..Cardinality(Projects) |-> driver.results[p]]
           printed == IF driver.json THEN printResultsAsJson(results)
                      ELSE printResultsAsText(results)
       IN driver' = [driver EXCEPT !.report = printed, !.exitCode = printed.code]
    /\ pc' = "reported"
    /\ DriverStill

\* ------------------------------------------------------------------ specification

InitWith(k, options) ==
    /\ kind = k
    /\ \E o \in options : minDuration = o.skip /\ thresholdDuration = o.force
    /\ pc = "parse"
    /\ now = 0
    /\ partial = FALSE
    /\ trace = <<>>
    /\ minTime = InitialLocals.minTime
    /\ maxTime = InitialLocals.maxTime
    /\ unclosedStack = InitialLocals.unclosedStack
    /\ spans = InitialLocals.spans
    /\ nodeModulePaths = InitialLocals.nodeModulePaths
    /\ span = InitialLocals.span
    /\ root = [start |-> 0, end |-> 0]
    /\ stack = <<>>
    /\ children = <<>>
    /\ pos = 0
    /\ unclosedEvents = <<>>
    /\ duplicates = <<>>
    /\ tree = <<>>
    /\ positions = <<>>
    /\ normalizer = Normalizer(positions)
    /\ result = <<>>
    /\ relatedTypes = <<>>
    /\ typeTree = <<>>
    /\ hotType = <<>>
    /\ ExtraIdle

Init == InitWith("timing", Options)
\* A module-resolution trace is read with a floor that drops the instantaneous
\* lookups; forceMillis plays no part in the package bookkeeping.
InitPackages == InitWith("packages", {o \in Options : o.skip = 1 /\ o.force = 2})

Next ==
    \/ \E value \in Values, t \in 0..MaxTs : OnValue(value, t)
    \/ \E value \in Values : OnNestedValue(value)
    \/ StreamEnd
    \/ BuildStart
    \/ BuildStep
    \/ ReportUnterminated
    \/ GetDuplicateNodeModules
    \/ PrintUnterminated
    \/ PrintDuplicateNodeModules

Spec == Init /\ [][Next]_vars
SpecPackages == InitPackages /\ [][Next]_vars

\* A trace of Begin and End events only, read and built into the tree.
InitNested == InitWith("nested", Options)
NextNested ==
    \/ \E value \in Values, t \in 0..MaxTs : OnValue(value, t)
    \/ StreamEnd
    \/ BuildStart
    \/ BuildStep
    \/ ReportUnterminated
SpecNested == InitNested /\ [][NextNested]_vars

\* The JSON report of a trace of checks, up to its hot spots.
InitHot == InitWith("hot", {o \in Options : o.skip = 0 /\ o.force = 1})
InitRanges == InitWith("ranges", {o \in Options : o.skip = 0 /\ o.force = 1})
NextHot ==
    \/ \E value \in Values, t \in Times : OnValue(value, t)
    \/ StreamEnd
    \/ BuildStart
    \/ BuildStep
    \/ ReportUnterminated
    \/ \E path \in {"", "types.json"}, canRead \in BOOLEAN, sourceRead \in Sources :
          GetHotSpots(path, canRead, sourceRead)
SpecHot == InitHot /\ [][NextHot]_vars
SpecRanges == InitRanges /\ [][NextHot]_vars

\* The text report of a trace of checks, up to its tree of hot spots.
InitStacks == InitWith("stacks", {o \in Options : o.skip = 0 /\ o.force = 1})
NextStacks ==
    \/ \E value \in Values, t \in Times : OnValue(value, t)
    \/ StreamEnd
    \/ BuildStart
    \/ BuildStep
    \/ PrintUnterminated
    \/ \E sourceRead \in Sources : PrintHotStacks(sourceRead)
SpecStacks == InitStacks /\ [][NextStacks]_vars

\* The report's variables before parse has read anything.
ReportIdle ==
    /\ minDuration = 0
    /\ thresholdDuration = 0
    /\ now = 0
    /\ partial = FALSE
    /\ trace = <<>>
    /\ minTime = InitialLocals.minTime
    /\ maxTime = InitialLocals.maxTime
    /\ unclosedStack = InitialLocals.unclosedStack
    /\ spans = InitialLocals.spans
    /\ nodeModulePaths = InitialLocals.nodeModulePaths
    /\ span = InitialLocals.span
    /\ root = [start |-> 0, end |-> 0]
    /\ stack = <<>>
    /\ children = <<>>
    /\ pos = 0
    /\ unclosedEvents = <<>>
    /\ duplicates = <<>>
    /\ tree = <<>>
\* normalizePositions has not been called.
ScanIdle == positions = <<>> /\ normalizer = Normalizer(positions) /\ result = <<>>
\* No types have been read.
TypesIdle == relatedTypes = <<>> /\ typeTree = <<>> /\ hotType = <<>>

\* normalizePositions called on a source file of kind k with one of `lists`.
InitScan(k, lists) ==
    /\ kind = k
    /\ ReportIdle
    /\ positions \in lists
    /\ normalizer = Normalizer(positions)
    /\ result = <<>>
    /\ pc = IF Len(positions) = 0 THEN "normalized" ELSE "scanning"
    /\ TypesIdle
    /\ ExtraIdle

InitPositions == InitScan("positions", PositionLists)
InitTemplate == InitScan("template", LexerPositions)
InitLines == InitScan("lines", LexerPositions)

NextScan ==
    \/ \E chunk \in Chunks : StreamData(chunk)
    \/ StreamClose

SpecPositions == InitPositions /\ [][NextScan]_vars
SpecTemplate == InitTemplate /\ [][NextScan]_vars
SpecLines == InitLines /\ [][NextScan]_vars

\* The lexer on files of regex literals, some of them in a template literal.
InitRegex == InitScan("regex", LexerPositions)
SpecRegex == InitRegex /\ [][NextScan]_vars

\* A skipping query on files with white space in comments, strings and
\* regex literals.
InitKinds == InitScan("kinds", KindPositions)
SpecKinds == InitKinds /\ [][NextScan]_vars

\* The reports asked for the types of an event whose type has id 1.
InitTypes ==
    /\ kind = "types"
    /\ ReportIdle
    /\ ScanIdle
    /\ relatedTypes \in TypeMaps
    /\ typeTree = <<>>
    /\ hotType = <<>>
    /\ ExtraIdle
    /\ pc = "types"

NextTypes ==
    \/ GetTypeTree
    \/ GetHotType

SpecTypes == InitTypes /\ [][NextTypes]_vars

\* getTypeTree followed call by call; a call that can run does run.
NextWalk ==
    \/ GetTypeTreeCall
    \/ AddTypeToTreeCall
    \/ AddTypeToTreeReturn
    \/ GetTypeTreeReturn

SpecTypeWalk == InitTypes /\ [][NextWalk]_vars /\ WF_vars(NextWalk)

\* simplifyType called on a raw record of the types file.
InitSimplify ==
    /\ kind = "simplify"
    /\ ReportIdle
    /\ ScanIdle
    /\ TypesIdle
    /\ WalkIdle /\ HotIdle /\ DriverIdle /\ CounterIdle
    /\ rawType \in RawTypes(MaxFeatures)
    /\ simplified = <<>>
    /\ pc = "raw"

NextSimplify == Simplify

SpecSimplify == InitSimplify /\ [][NextSimplify]_vars

\* simplifyType called on a record whose flags decide its kind.
InitFlags ==
    /\ kind = "flags"
    /\ ReportIdle
    /\ ScanIdle
    /\ TypesIdle
    /\ WalkIdle /\ HotIdle /\ DriverIdle /\ CounterIdle
    /\ rawType \in FlagTypes(MaxFeatures)
    /\ simplified = <<>>
    /\ pc = "raw"
SpecFlags == InitFlags /\ [][NextSimplify]_vars

\* The directory driver on a directory of up to MaxProjects projects.
InitDriver ==
    /\ kind = "directory"
    /\ ReportIdle
    /\ ScanIdle
    /\ TypesIdle
    /\ WalkIdle /\ SimplifyIdle /\ HotIdle /\ CounterIdle
    /\ \E n \in 0..MaxProjects, json \in BOOLEAN, limit \in 1..2 : driver = Driver(n, json, limit)
    /\ pc = "forking"
NextDriver ==
    \/ \E p \in Projects : Fork(p)
    \/ \E p \in Projects, thrown \in BOOLEAN : ForkFails(p, thrown)
    \/ \E p \in Projects, stdout \in Stdouts, stderr \in Stderrs : ChildWrites(p, stdout, stderr)
    \/ \E p \in Projects, stream \in {"stdout", "stderr"} : ChildData(p, stream)
    \/ \E p \in Projects, exit \in Exits : ChildExit(p, exit)
    \/ PrintResults
SpecDriver == InitDriver /\ [][NextDriver]_vars

\* countImportExpressions on an emitted file read chunk by chunk.
InitCount ==
    /\ kind = "imports"
    /\ ReportIdle
    /\ ScanIdle
    /\ TypesIdle
    /\ WalkIdle /\ SimplifyIdle /\ HotIdle /\ DriverIdle
    /\ counter = Counter
    /\ pc = "counting"
NextCount ==
    \/ \E chunk \in ImportChunks : CountData(chunk)
    \/ CountClose
SpecCount == InitCount /\ [][NextCount]_vars

\* Either reader of a stream, on every way the stream may cut its text.
InitChunks == InitPositions \/ InitCount
NextChunks == NextScan \/ NextCount
SpecChunks == InitChunks /\ [][NextChunks]_vars

\* ------------------------------------------------------------------ the trace, read independently of the parser

SetMax(S) == CHOOSE x \in S : \A y \in S : y <= x
CountPh(tr, ph, lo, hi) == Cardinality({k \in lo..hi : tr[k].ph = ph})

\* The Begin an End at place j closes by nesting: the latest Begin before it
\* with as many Begins as Ends in between; 0 when no Begin is open.
Partner(tr, j) ==
    LET c == {i \in 1..(j - 1) :
                /\ tr[i].ph = "B"
                /\ CountPh(tr, "B", i + 1, j - 1) = CountPh(tr, "E", i + 1, j - 1)}
    IN IF c = {} THEN 0 ELSE SetMax(c)

EndPlaces(tr) == {j \in DOMAIN tr : tr[j].ph = "E"}
UnmatchedEnds(tr) == {j \in EndPlaces(tr) : Partner(tr, j) = 0}
IsOpenBegin(tr, e) == e.ph = "B" /\ \A j \in EndPlaces(tr) : Partner(tr, j) # e.id

\* The Begins no End closes, in arrival order.
OpenBegins(tr) == SelectSeq(tr, LAMBDA e : IsOpenBegin(tr, e))

\* The spans the trace's Complete events and closed Begin/End pairs stand for.
ResolvedSpans(tr) ==
    {[event |-> tr[j], start |-> tr[j].ts, end |-> tr[j].ts + tr[j].dur] :
        j \in {k \in DOMAIN tr : tr[k].ph = "X"}}
    \cup {[event |-> tr[Partner(tr, j)], start |-> tr[Partner(tr, j)].ts, end |-> tr[j].ts] :
        j \in EndPlaces(tr) \ UnmatchedEnds(tr)}

\* Every element's ts is at least the ts of the element before it.
TsNonDecreasing(tr) == \A k \in 1..(Len(tr) - 1) : tr[k].ts <= tr[k + 1].ts

\* parse's locals after the elements of tr, one onValue call each.
RECURSIVE ParseOf(_)
ParseOf(tr) ==
    IF tr = <<>> THEN InitialLocals ELSE HandleValue(ParseOf(Front(tr)), Last(tr))

InTree(n) == \E p \in DOMAIN children : n \in Range(children[p])
LoopDone == pc \in {"json", "jsonDone", "text", "textDone"} \/ (pc = "build" /\ pos > Len(spans))

\* ------------------------------------------------------------------ C1

\* C1: at every iteration of buildHotPathsTree's loop the span becomes a
\* child of its parent and the new top of the stack if and only if its
\* duration >= thresholdDuration or >= 0.6 * the parent's duration, the parent
\* being the topmost stack entry above the root whose end > span.start (the
\* root when there is none); a span that fails the test is not on the stack,
\* so every stack entry is the root or a tree node.
C1_InclusionTest ==
    [][(pc = "build" /\ pos' = pos + 1) =>
        LET s == spans[pos]
            d == s.end - s.start
            c == {k \in 2..Len(stack) : spans[stack[k]].end > s.start}
            parent == IF c = {} THEN 0 ELSE stack[SetMax(c)]
            test == d >= thresholdDuration \/ 10 * d >= 6 * NodeDuration(parent)
        IN /\ test => /\ children' = [children EXCEPT ![parent] = Append(@, pos)]
                      /\ Last(stack') = pos
           /\ ~test => /\ children' = children
                       /\ pos \notin Range(stack')
           /\ \A n \in Range(stack') :
                n = 0 \/ \E p \in DOMAIN children' : n \in Range(children'[p])
      ]_vars

\* A span was discarded, a later span starts before the discarded one ends,
\* and another span was kept.
C1_Witness ==
    /\ pc = "build" /\ pos > Len(spans)
    /\ \E a, b, k \in DOMAIN spans :
         /\ a < b /\ ~InTree(a) /\ spans[a].end > spans[b].start
         /\ InTree(k) /\ k < a

\* ------------------------------------------------------------------ C2

C3_NoNodeBelowSkip ==
    \A n \in DOMAIN children : (n # 0 /\ InTree(n)) => NodeDuration(n) >= minDuration

\* ------------------------------------------------------------------ C4

\* C4: once the loop is over, every span the trace resolves (a Complete event
\* or a closed Begin/End pair) whose duration >= thresholdDuration is a node of
\* the tree.
C4_ForcedSpansAreNodes ==
    LoopDone =>
        \A r \in ResolvedSpans(trace) :
            (r.end - r.start) >= thresholdDuration =>
                \E n \in DOMAIN spans : spans[n] = r /\ InTree(n)

\* A node of at least thresholdDuration that is below 0.6 of its parent.
C4_Witness ==
    /\ LoopDone
    /\ \E p \in DOMAIN children : \E n \in Range(children[p]) :
         /\ spans[n] \in ResolvedSpans(trace)
         /\ NodeDuration(n) >= thresholdDuration
         /\ 10 * NodeDuration(n) < 6 * NodeDuration(p)

\* ------------------------------------------------------------------ C5

\* C5: for a trace whose timestamps are non-decreasing in arrival order,
\* every span the loop of buildHotPathsTree gets has end >= start.
C5_SpansEndAfterStart ==
    (pc = "build" /\ TsNonDecreasing(trace)) =>
        \A n \in DOMAIN spans : spans[n].end >= spans[n].start

\* ------------------------------------------------------------------ C6

\* C6: when parse resolves, unclosedStack is the trace's never-closed Begins,
\* each once, in arrival order; buildHotPathsTree's span list holds for each of
\* them exactly one span, [its ts, maxTime].
C6_UnclosedReinserted ==
    /\ pc = "resolved" => unclosedStack = OpenBegins(trace)
    /\ pc = "build" =>
         \A b \in Range(OpenBegins(trace)) :
            /\ Cardinality({n \in DOMAIN spans : spans[n].event = b}) = 1
            /\ \A n \in DOMAIN spans :
                 spans[n].event = b => spans[n] = [event |-> b, start |-> b.ts, end |-> maxTime]

\* Two Begins were left open by a trace that also resolved a span.
C6_Witness ==
    /\ pc = "build"
    /\ Len(OpenBegins(trace)) = 2
    /\ Len(spans) = 3

\* ------------------------------------------------------------------ C7

\* C7: an End that arrives with no Begin open ends parse at that element with
\* an error: it is the last element handed to onValue, parse never resolves,
\* and no span stands for it.
C7_UnmatchedEndIsFatal ==
    UnmatchedEnds(trace) # {} =>
        /\ pc = "threw"
        /\ UnmatchedEnds(trace) = {Len(trace)}
        /\ Range(spans) \subseteq ResolvedSpans(trace)
        /\ span = ParseOf(Front(trace)).span

\* An End with no Begin open arrived after a span had been resolved.
C7_Witness ==
    /\ pc = "threw"
    /\ Len(trace) = 3
    /\ trace[3].ph = "E"
    /\ spans # <<>>

\* ------------------------------------------------------------------ C8

\* C8: when the stream ends inside an element, parse resolves, without an
\* error, with the result of the complete elements read before.
C8_TruncationTolerated ==
    (partial /\ pc # "parse") =>
        /\ pc = "resolved" => /\ minTime = ParseOf(trace).minTime
                              /\ maxTime = ParseOf(trace).maxTime
                              /\ spans = ParseOf(trace).spans
                              /\ unclosedStack = ParseOf(trace).unclosedStack
                              /\ nodeModulePaths = ParseOf(trace).nodeModulePaths
        /\ pc # "threw"

\* The stream ended inside the third element, after a span and an open Begin.
C8_Witness ==
    /\ pc = "resolved" /\ partial
    /\ Len(trace) = 2
    /\ spans # <<>> /\ unclosedStack # <<>>

\* ------------------------------------------------------------------ C9

\* The pattern's matches in each file name a trace may hold.
MatchesIn == [f \in {v.fileName : v \in PackageValues} |-> PackageMatches(f, 1)]

FindSpans(tr) ==
    {r \in ResolvedSpans(tr) : r.event.name = "findSourceFile" /\ r.event.fileName # NoFile}

Recorded(name, path) ==
    \E i \in DOMAIN nodeModulePaths :
        nodeModulePaths[i].name = name /\ path \in Range(nodeModulePaths[i].paths)

SeenAt(tr) ==
    UNION {Range(MatchesIn[r.event.fileName]) : r \in FindSpans(tr)}
SeenPaths(tr, name) == {m.packagePath : m \in {x \in SeenAt(tr) : x.packageName = name}}
DuplicatedNames(tr) ==
    {m.packageName : m \in {x \in SeenAt(tr) : Cardinality(SeenPaths(tr, x.packageName)) >= 2}}

IsDuplicateReport(names, pathsOf) ==
    /\ Range(names) = DuplicatedNames(trace)
    /\ Cardinality(Range(names)) = Len(names)
    /\ \A i \in DOMAIN names :
         /\ Range(pathsOf[i]) = SeenPaths(trace, names[i])
         /\ Cardinality(Range(pathsOf[i])) = Len(pathsOf[i])

\* C10: the duplicate-package report (JSON and text) names exactly the
\* packages the trace's lookups saw at two or more distinct paths, each once
\* and with each of its paths once, whatever versions could be read.
C10_DuplicatesExact ==
    /\ pc = "jsonDone" =>
         IsDuplicateReport([i \in DOMAIN duplicates |-> duplicates[i].name],
                           [i \in DOMAIN duplicates |->
                              [k \in DOMAIN duplicates[i].instances |-> duplicates[i].instances[k].path]])
    /\ pc = "textDone" =>
         IsDuplicateReport([i \in DOMAIN tree |-> tree[i].name],
                           [i \in DOMAIN tree |-> tree[i].paths])

\* One package seen at two paths is reported, with a version that could not
\* be read, while another seen twice at one path is not.
C10_Witness ==
    /\ pc = "jsonDone"
    /\ Len(duplicates) = 1
    /\ \E k \in DOMAIN duplicates[1].instances : duplicates[1].instances[k].version = Undefined
    /\ \E name \in {m.packageName : m \in SeenAt(trace)} : Cardinality(SeenPaths(trace, name)) = 1

\* ------------------------------------------------------------------ the text, read independently of the normalizer

\* A line break ends at place i: an LF, or a CR that no LF follows.
IsBreak(chars, i) ==
    \/ chars[i] = code_NewLine
    \/ chars[i] = code_CarriageReturn /\ ~(i < Len(chars) /\ chars[i + 1] = code_NewLine)
BreaksBefore(chars, k) == {i \in 1..(k - 1) : IsBreak(chars, i)}

\* The (line, char) of the k-th character (k = 1 is offset 0); k = Len + 1 is
\* where the cursor stands once the whole text is consumed.
LineCharAt(chars, k) ==
    <<1 + Cardinality(BreaksBefore(chars, k)), k - SetMax(BreaksBefore(chars, k) \cup {0})>>
EofLineChar(chars) == LineCharAt(chars, Len(chars) + 1)

LexLeq(a, b) == a[1] < b[1] \/ (a[1] = b[1] /\ a[2] <= b[2])

\* The target of a position, sign removed.
TargetOf(position) ==
    IF position.type = "number" THEN <<Abs(position.value[1])>>
    ELSE <<Abs(position.value[1]), Abs(position.value[2])>>
\* The k-th character is at or after the target.
AtOrAfter(chars, k, position) ==
    IF position.type = "number" THEN k - 1 >= TargetOf(position)[1]
    ELSE LexLeq(TargetOf(position), LineCharAt(chars, k))
\* The lexer's classification of the k-th character.
KindAt(k) == normalizer.scanned[k].charKind
IsToken(k) == KindAt(k) \notin {"whitespace", "comment"}
\* The places where a query may resolve, and the first of them (0 if none).
Candidates(chars, position) ==
    {k \in 1..Len(chars) : AtOrAfter(chars, k, position) /\ (IsFixed(position) \/ IsToken(k))}
FirstCandidate(chars, position) ==
    IF Candidates(chars, position) = {} THEN 0
    ELSE CHOOSE k \in Candidates(chars, position) : \A j \in Candidates(chars, position) : k <= j
Answer(chars, position) ==
    IF FirstCandidate(chars, position) = 0 THEN EofLineChar(chars)
    ELSE LineCharAt(chars, FirstCandidate(chars, position))
Normalized == pc = "normalized" /\ kind = "positions"

\* C11: normalizePositions resolves with exactly one result per query, and
\* result[i] is the answer to positions[i] (the first place at or after its
\* target where its bucket may resolve, else the end of file), whatever the
\* mix of buckets and the order of the queries.
C11_ResultsInRequestOrder ==
    Normalized =>
        /\ DOMAIN result = 1..Len(positions)
        /\ \A i \in 1..Len(positions) : result[i] = Answer(Text, positions[i])
\* Two queries of different buckets, the later target asked first, answered
\* differently.
C11_Witness ==
    /\ Normalized
    /\ Len(positions) = 2
    /\ Bucket(positions[1]) # Bucket(positions[2])
    /\ result[1] # result[2]
    /\ LexLeq(result[2], result[1])

\* C12: a skipping query resolves to the (line, char) of the first character
\* at or after its target that the lexer classifies as neither whitespace nor
\* comment.
C12_SkippingResolvesAtToken ==
    Normalized =>
        \A i \in 1..Len(positions) :
            \A k \in 1..Len(Text) :
                (/\ ~IsFixed(positions[i])
                 /\ AtOrAfter(Text, k, positions[i]) /\ IsToken(k)
                 /\ \A j \in 1..(k - 1) : ~(AtOrAfter(Text, j, positions[i]) /\ IsToken(j)))
                    => result[i] = LineCharAt(Text, k)
\* An offset inside a comment resolved to the token on the next line.
C12_Witness ==
    /\ Normalized
    /\ \E i \in 1..Len(positions) :
        /\ positions[i].type = "number" /\ ~IsFixed(positions[i])
        /\ positions[i].value[1] < Len(Text)
        /\ KindAt(positions[i].value[1] + 1) = "comment"
        /\ FirstCandidate(Text, positions[i]) > 0
        /\ result[i] = <<2, 1>>

\* C13: a fixed query whose target lies inside the text resolves to the
\* (line, char) of the character at the target itself, trivia or not.
C13_FixedResolvesAtTarget ==
    Normalized =>
        \A i \in 1..Len(positions) :
            \A k \in 1..Len(Text) :
                (/\ IsFixed(positions[i])
                 /\ IF positions[i].type = "number" THEN k - 1 = TargetOf(positions[i])[1]
                    ELSE LineCharAt(Text, k) = TargetOf(positions[i]))
                    => result[i] = LineCharAt(Text, k)
\* A fixed offset and a fixed line/char pair that both land on trivia.
C13_Witness ==
    /\ Normalized
    /\ \E i, j \in 1..Len(positions) :
        /\ Len(Text) >= 3
        /\ positions[i] = Offset(-1) /\ ~IsToken(2) /\ result[i] = <<1, 2>>
        /\ positions[j] = LineChar(-1, 3) /\ ~IsToken(3) /\ result[j] = <<1, 3>>

\* C14: a query whose target is never reached (beyond the end of file, or a
\* skipping query with only trivia from its target on) resolves to the
\* cursor's final (line, char); on an empty stream every query gets (1, 1).
C14_UnreachedResolveAtEof ==
    Normalized =>
        /\ \A i \in 1..Len(positions) :
              Candidates(Text, positions[i]) = {} => result[i] = EofLineChar(Text)
        /\ Text = <<>> => \A i \in 1..Len(positions) : result[i] = <<1, 1>>
\* A skipping query followed only by trivia, and a fixed one beyond the end,
\* in a text of two lines.
C14_Witness ==
    /\ Normalized
    /\ Len(positions) = 2
    /\ ~IsFixed(positions[1]) /\ AtOrAfter(Text, Len(Text), positions[1])
    /\ IsFixed(positions[2]) /\ ~AtOrAfter(Text, Len(Text), positions[2])
    /\ Candidates(Text, positions[1]) = {}
    /\ result[1] = result[2]
    /\ result[1][1] = 2

\* C15: two queries of the same bucket with targets a <= b get results in
\* the same order, (line, char) compared lexicographically.
C15_ResultsMonotone ==
    Normalized =>
        \A i, j \in 1..Len(positions) :
            (/\ Bucket(positions[i]) = Bucket(positions[j])
             /\ IF positions[i].type = "number"
                THEN TargetOf(positions[i])[1] <= TargetOf(positions[j])[1]
                ELSE LexLeq(TargetOf(positions[i]), TargetOf(positions[j])))
                => LexLeq(result[i], result[j])
\* Two fixed offsets, the larger asked first, on different lines.
C15_Witness ==
    /\ Normalized
    /\ Len(positions) = 2
    /\ positions[1] = Offset(-2) /\ positions[2] = Offset(-1)
    /\ result[2][1] < result[1][1]

\* ------------------------------------------------------------------ the lexer's log

Scanned == normalizer.scanned
IsLineTerminator(ch) == ch = code_NewLine \/ ch = code_CarriageReturn
\* A `//` that step met in default state starts at place i of the log.
LineCommentStartsAt(i) ==
    /\ Scanned[i].state = "Default"
    /\ Scanned[i].ch = code_Slash
    /\ Scanned[i].nextCh = code_Slash
\* The places from i up to the character before the next line terminator.
RestOfLine(i) ==
    {k \in i..Len(Scanned) : \A j \in i..k : ~IsLineTerminator(Scanned[j].ch)}
\* The place of the line terminator that ends the line of place i (0 if the
\* log ends first).
TerminatorAfter(i) ==
    IF \E j \in i..Len(Scanned) : IsLineTerminator(Scanned[j].ch)
    THEN CHOOSE j \in i..Len(Scanned) :
            /\ IsLineTerminator(Scanned[j].ch)
            /\ \A k \in i..(j - 1) : ~IsLineTerminator(Scanned[k].ch)
    ELSE 0

\* C16: from a `//` met in default state up to the character before the next
\* line terminator every character is classified comment, and the line
\* terminator leaves the machine in default state.
C16_LineCommentToEndOfLine ==
    \A i \in 1..Len(Scanned) :
        LineCommentStartsAt(i) =>
            /\ \A k \in RestOfLine(i) : Scanned[k].charKind = "comment"
            /\ TerminatorAfter(i) # 0 => Scanned[TerminatorAfter(i)].after.state = "Default"

\* ------------------------------------------------------------------ template literals, read by nesting

\* The reading of a text that the nesting of its template literals gives: a
\* stack of frames, a template frame for each literal being read and a code
\* frame for the file and for each hole being read.  A code frame scans its
\* expression with a lexer of its own, as default code scanning does; the
\* hole's `}` is the one met in default state with every `{` of the
\* expression closed.
CodeFrame(atStart) == [template |-> FALSE, dollar |-> FALSE,
                       machine |-> [Create EXCEPT !.isBOF = atStart]]
TemplateFrame == [template |-> TRUE, dollar |-> FALSE, machine |-> Create]
\* The frames after a character, its kind, and whether the character is one
\* of the hole's delimiters `${` and `}`.
NestingStep(frames, ch, nextCh) ==
    LET top == Last(frames) IN
    IF top.template
    THEN CASE ch = code_Backtick ->
                [frames |-> Front(frames), charKind |-> "string", delimiter |-> FALSE]
           [] ch = code_Dollar /\ nextCh = code_OpenBrace ->
                [frames |-> Append(Front(frames), [top EXCEPT !.dollar = TRUE]),
                 charKind |-> "string", delimiter |-> TRUE]
           [] ch = code_OpenBrace /\ top.dollar ->
                [frames |-> Append(Append(Front(frames), TemplateFrame), CodeFrame(FALSE)),
                 charKind |-> "string", delimiter |-> TRUE]
           [] OTHER -> [frames |-> frames, charKind |-> "string", delimiter |-> FALSE]
    ELSE CASE ch = code_Backtick /\ top.machine.state = "Default" ->
                [frames |-> Append(frames, TemplateFrame), charKind |-> "string",
                 delimiter |-> FALSE]
           [] /\ ch = code_CloseBrace /\ Len(frames) > 1
              /\ top.machine.state = "Default" /\ top.machine.braceDepth = 0 ->
                [frames |-> Front(frames), charKind |-> "string", delimiter |-> TRUE]
           [] OTHER ->
                [frames |-> Append(Front(frames),
                                   [top EXCEPT !.machine = Step(top.machine, ch, nextCh).machine]),
                 charKind |-> Step(top.machine, ch, nextCh).charKind,
                 delimiter |-> FALSE]
\* The reading of the first k characters of the log: the frames afterwards
\* and the last character's kind.
RECURSIVE NestingAt(_)
NestingAt(k) ==
    IF k = 0 THEN [frames |-> <<CodeFrame(TRUE)>>, charKind |-> "code", delimiter |-> FALSE]
    ELSE NestingStep(NestingAt(k - 1).frames, Scanned[k].ch, Scanned[k].nextCh)
\* The k-th character belongs to a template literal: to its text or to one
\* of its holes' expressions.
InTemplateLiteral(k) ==
    /\ ~NestingAt(k).delimiter
    /\ \/ Len(NestingAt(k - 1).frames) > 1
       \/ Len(NestingAt(k).frames) > 1
\* The machine step was called on for the k-th character.
MachineBefore(k) == IF k = 1 THEN Create ELSE Scanned[k - 1].after

\* C17: in a template literal the characters outside the holes are
\* classified string and the characters of a hole's expression as default
\* code scanning classifies them; a `}` closes a hole only when the brace
\* depth equals the snapshot pushed at that hole's entry.
C17_TemplateLiteralKinds ==
    \A k \in 1..Len(Scanned) :
        /\ InTemplateLiteral(k) => Scanned[k].charKind = NestingAt(k).charKind
        /\ Len(Scanned[k].after.templateStringBraceDepthStack)
              < Len(MachineBefore(k).templateStringBraceDepthStack)
           => /\ Scanned[k].ch = code_CloseBrace
              /\ MachineBefore(k).braceDepth = Last(MachineBefore(k).templateStringBraceDepthStack)

\* ------------------------------------------------------------------ line breaks

\* The states the claim names: a line comment, a shebang comment, a single-
\* or double-quoted string, a regex, a regex character class.
SingleLineStates == {"SingleLineComment", "ShebangComment", "SingleQuoteString",
                     "DoubleQuoteString", "Regex", "CharClass"}
\* A line break starts at place k of the log: a CR, or an LF that no CR
\* precedes.
BreakStartsAt(k) ==
    \/ Scanned[k].ch = code_CarriageReturn
    \/ Scanned[k].ch = code_NewLine /\ ~(k > 1 /\ Scanned[k - 1].ch = code_CarriageReturn)
\* The place of the last character of the break that starts at k.
BreakEnd(k) ==
    IF Scanned[k].ch = code_CarriageReturn /\ Scanned[k].nextCh = code_NewLine THEN k + 1 ELSE k

\* C18: whenever a line break (a lone LF, a lone CR or a CR LF pair) is
\* stepped while the lexer is in a line comment, a shebang comment, a single-
\* or double-quoted string, a regex or a regex character class, the lexer is
\* in default state for the first character of the next line.
C18_LineBreakResets ==
    \A k \in 1..Len(Scanned) :
        (/\ BreakStartsAt(k)
         /\ Scanned[k].state \in SingleLineStates
         /\ BreakEnd(k) <= Len(Scanned))
            => Scanned[BreakEnd(k)].after.state = "Default"

\* C19: step returns wrapLine = true exactly at the character that ends a
\* line break (an LF, or a CR that no LF follows) whatever the lexer's state,
\* so the normalizer's cursor is at line 1 + the number of breaks consumed
\* and at char 1 + the number of characters consumed since the last break.
C19_WrapLineOncePerBreak ==
    kind = "lines" =>
        /\ \A k \in 1..Len(Scanned) : Scanned[k].wrapLine = IsBreak(Text, k)
        /\ normalizer.currLineChar = LineCharAt(Text, Len(Scanned) + 1)
        /\ normalizer.currOffset = Len(Scanned)
\* A CR LF pair, a lone LF and a lone CR stepped after a `/`, the first of
\* them in regex state: three breaks, the cursor at the start of line 4.
C19_Witness ==
    /\ kind = "lines"
    /\ [k \in 1..Len(Scanned) |-> Scanned[k].ch]
          = <<code_Slash, code_CarriageReturn, code_NewLine, code_NewLine, code_CarriageReturn>>
    /\ Scanned[2].state = "Regex"
    /\ [k \in 1..Len(Scanned) |-> Scanned[k].wrapLine] = <<FALSE, FALSE, TRUE, TRUE, TRUE>>
    /\ normalizer.currLineChar = <<4, 1>>

\* ------------------------------------------------------------------ type trees

\* The types a type refers to that the map knows, in order.
RECURSIVE KnownRefs(_, _)
KnownRefs(types, refs) ==
    IF refs = <<>> THEN <<>>
    ELSE (IF Head(refs) \in DOMAIN types THEN <<Type(Head(refs), types[Head(refs)])>> ELSE <<>>)
         \o KnownRefs(types, Tail(refs))
\* A hot type whose nodes are expanded exactly where the claim says: a node
\* whose id is among its proper ancestors has no children, any other node
\* has one child for each known type it refers to.
RECURSIVE HotGuarded(_, _)
HotGuarded(node, ancestors) ==
    IF node.type.id \in ancestors THEN node.children = <<>>
    ELSE /\ [i \in 1..Len(node.children) |-> node.children[i].type]
                = KnownRefs(relatedTypes, node.type.types)
         /\ \A i \in 1..Len(node.children) :
                HotGuarded(node.children[i], ancestors \cup {node.type.id})
\* The same for a type tree, whose nodes are keyed by their type.
RECURSIVE TreeGuarded(_, _)
TreeGuarded(nodes, ancestors) ==
    \A key \in DOMAIN nodes :
        IF key.id \in ancestors THEN DOMAIN nodes[key] = {}
        ELSE /\ DOMAIN nodes[key] = Range(KnownRefs(relatedTypes, key.types))
             /\ TreeGuarded(nodes[key], ancestors \cup {key.id})

\* C20: in the tree built by getTypeTree and by getHotType, a node's children
\* are expanded exactly when its id is not among its proper ancestors: an id
\* that is already an ancestor is emitted with empty children, an id met
\* again under a sibling is expanded again.
C20_CycleGuard ==
    /\ pc = "hotTypeDone" =>
          /\ Len(hotType) = 1
          /\ hotType[1].type.id = 1
          /\ HotGuarded(hotType[1], {})
    /\ pc = "typeTreeDone" =>
          /\ DOMAIN typeTree = {Type(1, relatedTypes[1])}
          /\ TreeGuarded(typeTree, {})
\* Type 1 refers to 2 and 3, 2 to 3 and 3 back to 1: 3 is expanded under 2
\* and again under 1, and each time its child 1 has no children.
C20_Witness ==
    /\ pc = "hotTypeDone"
    /\ DOMAIN relatedTypes = 1..3
    /\ relatedTypes[1] = <<2, 3>> /\ relatedTypes[2] = <<3>> /\ relatedTypes[3] = <<1>>
    /\ hotType[1].children[1].children[1].children[1] = [type |-> Type(1, <<2, 3>>), children |-> <<>>]
    /\ hotType[1].children[2].children[1] = [type |-> Type(1, <<2, 3>>), children |-> <<>>]
\* The same types in the type tree of the text report.
C20_WitnessTree ==
    /\ pc = "typeTreeDone"
    /\ DOMAIN relatedTypes = 1..3
    /\ relatedTypes[1] = <<2, 3>> /\ relatedTypes[2] = <<3>> /\ relatedTypes[3] = <<1>>
    /\ DOMAIN typeTree[Type(1, <<2, 3>>)][Type(3, <<1>>)][Type(1, <<2, 3>>)] = {}

\* ------------------------------------------------------------------ C21

\* The ids with a type that the walk from id 1 can come to.
RECURSIVE ReachableFrom(_)
ReachableFrom(ids) ==
    LET more == ids \cup UNION {{r \in Range(relatedTypes[i]) : HasType(relatedTypes, r)} : i \in ids}
    IN IF more = ids THEN ids ELSE ReachableFrom(more)
ReachableIds == IF HasType(relatedTypes, 1) THEN ReachableFrom({1}) ELSE {}
\* The calls of addTypeToTree in progress.
Depth == IF walk = <<>> THEN 0 ELSE Len(walk) - 1
NoRepeat(ids) == \A i, j \in DOMAIN ids : ids[i] = ids[j] => i = j
WalkBounded ==
    /\ NoRepeat(ancestorPath)
    /\ Range(ancestorPath) \subseteq ReachableIds
    /\ Depth <= Cardinality(ReachableIds) + 1

\* C21: getTypeTree returns for every table of types, with self-references and
\* longer cycles among them: the ancestor path never holds an id twice, no more
\* calls are in progress than there are ids within reach plus one, and the walk
\* comes to its end.
C21_WalkTerminates == [](WalkBounded) /\ <>(pc = "typeTreeDone")
\* 1 refers to itself and to 2, 2 to 3 and 3 back to 1: the walk is over and
\* has built the tree getTypeTree builds.
C21_Witness ==
    /\ pc = "typeTreeDone"
    /\ DOMAIN relatedTypes = 1..3
    /\ relatedTypes[1] = <<1, 2>> /\ relatedTypes[2] = <<3>> /\ relatedTypes[3] = <<1>>
    /\ typeTree = getTypeTree(1, relatedTypes)
    /\ DOMAIN typeTree[Type(1, <<1, 2>>)][Type(2, <<3>>)][Type(3, <<1>>)][Type(1, <<1, 2>>)] = {}
\* The walk builds the tree getTypeTree builds.
WalkBuildsTypeTree == pc = "typeTreeDone" => typeTree = getTypeTree(1, relatedTypes)
\* A walk four calls deep, at the call that is suppressed.
WalkDeepest == pc = "walking" /\ Depth = 4 /\ ~Last(walk).entered /\ Last(walk).known

\* ------------------------------------------------------------------ C22

\* The rules in the order of the claim, each with whether the raw record
\* satisfies its guard and the kinds it gives.
Rules ==
    LET flags == IF Len(rawType.flags) = 1 /\ IsDigits(rawType.flags[1])
                 THEN {FlagNames41[b + 1] : b \in {b \in 0..28 : HasBit(rawType.flags[1].digits, b)}}
                 ELSE {rawType.flags[i].text : i \in DOMAIN rawType.flags}
        name == rawType.symbolName
        Rule(holds, kinds) == [holds |-> holds, kinds |-> kinds]
    IN <<Rule(rawType.intrinsicName # "", {"Intrinsic"}),
         Rule(rawType.unionTypes # <<>>, {"Union"}),
         Rule(rawType.intersectionTypes # <<>>, {"Intersection"}),
         Rule(rawType.indexedAccessObjectType # 0, {"IndexedAccess"}),
         Rule(rawType.keyofType # 0, {"IndexType"}),
         Rule(rawType.isTuple, {"Tuple"}),
         Rule(rawType.conditionalCheckType # 0, {"ConditionalType"}),
         Rule(rawType.substitutionBaseType # 0, {"SubstitutionType"}),
         Rule(rawType.reverseMappedSourceType # 0, {"ReverseMappedType"}),
         Rule(rawType.aliasTypeArguments # <<>>, {"GenericTypeAlias"}),
         Rule(rawType.instantiatedType # 0 /\ rawType.typeArguments \notin {<<>>, <<<<>>>>},
              IF rawType.instantiatedType = rawType.id THEN {"GenericType"}
              ELSE {"GenericInstantiation"}),
         Rule(rawType.destructuringPattern, {"Destructuring"}),
         Rule("StringLiteral" \in flags, {"StringLiteral"}),
         Rule("NumberLiteral" \in flags, {"NumberLiteral"}),
         Rule("BigIntLiteral" \in flags, {"BigIntLiteral"}),
         Rule("TypeParameter" \in flags, {"TypeParameter"}),
         Rule("UniqueESSymbol" \in flags, {"Unique"}),
         Rule(name \in {"__@iterator@34", "__@unscopables"}, {"KnownSymbol"}),
         Rule(name \in {"__function", "__type", "__class", "__object", "__jsxAttributes"},
              {"AnonymousFunction", "AnonymousType", "AnonymousClass", "AnonymousObject",
               "JsxAttributesType"}),
         Rule("Object" \in flags /\ name # "", {"Object"}),
         Rule(rawType.display = "(props: P) => Element", {"JsxElementSignature"}),
         Rule(TRUE, {"Other"})>>
EarliestRule == CHOOSE i \in DOMAIN Rules : Rules[i].holds /\ \A j \in 1..(i - 1) : ~Rules[j].holds
\* The kind without its Aliased prefix, as one string.
KindName(pieces) ==
    LET rest == IF pieces[1] = "Aliased" THEN Tail(pieces) ELSE pieces
    IN IF Len(rest) = 1 THEN rest[1]
       ELSE CASE rest[2] = "Function" -> "AnonymousFunction"
              [] rest[2] = "Type" -> "AnonymousType"
              [] rest[2] = "Class" -> "AnonymousClass"
              [] rest[2] = "Object" -> "AnonymousObject"

\* C22: simplifyType gives every raw record one kind, and that kind, its
\* Aliased prefix left aside, is the kind of the earliest rule of the order
\* whose guard the record satisfies.
C22_EarliestRuleWins ==
    pc = "simplified" => KindName(simplified.kind) \in Rules[EarliestRule].kinds
\* A named union whose flags (written as the number of a TS 4.1 trace) have
\* Object: the union rule comes before the Object rule.
C22_Witness ==
    /\ pc = "simplified"
    /\ rawType.unionTypes # <<>>
    /\ rawType.symbolName = "Foo"
    /\ rawType.flags = <<FlagDigits(2 ^ 19)>>
    /\ simplified.kind = <<"Aliased", "Union">>
\* An instantiation of another generic that is also a string literal.
C22_WitnessGeneric ==
    /\ pc = "simplified"
    /\ rawType.instantiatedType = 2
    /\ rawType.typeArguments = <<<<2>>>>
    /\ rawType.flags = <<FlagText("StringLiteral")>>
    /\ simplified.kind = <<"GenericInstantiation">>

\* ------------------------------------------------------------------ C28

\* Every End of the trace closes a Begin and no Begin is left open.
WellNested(tr) ==
    /\ \A k \in DOMAIN tr : tr[k].ph \in {"B", "E"}
    /\ \A k \in DOMAIN tr : CountPh(tr, "E", 1, k) <= CountPh(tr, "B", 1, k)
    /\ CountPh(tr, "E", 1, Len(tr)) = CountPh(tr, "B", 1, Len(tr))
NonDecreasing(tr) == \A j, k \in DOMAIN tr : j <= k => tr[j].ts <= tr[k].ts
TreeBuilt == pc \in {"build", "json"} /\ pos > Len(spans)
Contains(p, n) == spans[p].start <= spans[n].start /\ spans[n].end <= spans[p].end

\* C28: in the tree built from a well-nested trace of Begin and End events with
\* non-decreasing timestamps, every node under a parent other than the root
\* lies within its parent: the parent starts no later and ends no earlier.
C28_ParentContainsChild ==
    (TreeBuilt /\ WellNested(trace) /\ NonDecreasing(trace))
        => \A p \in 1..Len(spans) : \A i \in DOMAIN children[p] : Contains(p, children[p][i])
\* Of two checks that begin at the same time, the inner one is a node of the
\* tree and the outer one is attached somewhere.
C28_SameStart ==
    /\ TreeBuilt /\ WellNested(trace) /\ Len(trace) = 4
    /\ trace[1].ph = "B" /\ trace[2].ph = "B" /\ trace[1].ts = trace[2].ts
    /\ trace[3].ts < trace[4].ts
    /\ \E p \in 0..Len(spans) : children[p] # <<>>

\* ------------------------------------------------------------------ C23

\* The nodes of the tree the hot spots were made of.
HotNodes == NodesBelow(children, 0) \ {0}
\* The event of node n yields a description: the check of a file, a
\* comparison of types, or a check with a pos and an end.
HasDescription(n) ==
    LET event == spans[n].event
    IN \/ event.name \in {"checkSourceFile", "structuredTypeRelatedTo", "getVariancesWorker"}
       \/ EventCat(event) = "check" /\ EventPos(event) # 0 /\ EventEnd(event) # 0
\* The nodes with a description met first on the way down from each node of
\* the list, in the order of the list.
RECURSIVE NearestVisible(_)
NearestVisible(list) ==
    IF list = <<>> THEN <<>>
    ELSE (IF HasDescription(Head(list)) THEN <<Head(list)>>
          ELSE NearestVisible(children[Head(list)]))
         \o NearestVisible(Tail(list))
NodesOf(frames) == [i \in DOMAIN frames |-> frames[i].node]
\* Every frame of the report, at any depth.
RECURSIVE AllFrames(_)
AllFrames(frames) ==
    IF frames = <<>> THEN <<>>
    ELSE <<Head(frames)>> \o AllFrames(Head(frames).children) \o AllFrames(Tail(frames))
HotSpotsDone == pc = "hotSpots"

\* C23: a node whose event yields no description has no frame, and the frames
\* of its nearest descendants that have one stand in its place in the list of
\* its nearest ancestor that has one (the top level when there is none); every
\* node whose event yields a description has exactly one frame.
C23_DroppedNodesSpliced ==
    HotSpotsDone =>
        LET all == AllFrames(hotSpots)
        IN /\ NodesOf(hotSpots) = NearestVisible(children[0])
           /\ \A i \in DOMAIN all : NodesOf(all[i].children) = NearestVisible(children[all[i].node])
           /\ \A n \in HotNodes :
                 Cardinality({i \in DOMAIN all : all[i].node = n}) = IF HasDescription(n) THEN 1 ELSE 0
\* The check of the node at the start of the file has no frame; the check of
\* a later node inside it stands at the top level, after the check of a file.
C23_Witness ==
    /\ HotSpotsDone
    /\ Len(spans) = 3 /\ Len(children[0]) = 2
    /\ \E n \in Range(children[0]) :
          /\ ~HasDescription(n)
          /\ Len(children[n]) = 1 /\ HasDescription(children[n][1])
          /\ Len(hotSpots) = 2 /\ hotSpots[2].node = children[n][1]

\* ------------------------------------------------------------------ C24

NonIncreasing(frames) ==
    \A i, j \in DOMAIN frames : i < j => NodeDuration(frames[i].node) >= NodeDuration(frames[j].node)
\* C24: every list of frames, the top level among them, is in order of
\* non-increasing duration, so the first hot spot is the longest.
C24_SlowestFirst ==
    HotSpotsDone =>
        /\ NonIncreasing(hotSpots)
        /\ \A i \in DOMAIN AllFrames(hotSpots) : NonIncreasing(AllFrames(hotSpots)[i].children)

\* ------------------------------------------------------------------ C27

\* C27: when the types file was asked for and cannot be read, the report is
\* still made: reportHighlights does not reject.
C27_TypesReadFailureRecovered ==
    (typesPath # "" /\ ~typesReadable) => pc # "rejected"

\* ------------------------------------------------------------------ C29

\* A frame with normalized positions.
IsNormalized(frame) == "startLine" \in DOMAIN frame.location
\* C29: a frame with normalized positions starts where the trivia-skipping
\* normalization of its event's pos is and ends where the fixed normalization
\* of its event's end is, whatever other checked nodes the file has.
C29_RangeNormalized ==
    HotSpotsDone =>
        \A i \in DOMAIN AllFrames(hotSpots) :
            LET frame == AllFrames(hotSpots)[i]
                event == spans[frame.node].event
            IN IsNormalized(frame) =>
                  /\ <<frame.location.startLine, frame.location.startChar>>
                        = normalizePositions(sourceFile.chars, <<Offset(event.pos)>>)[1]
                  /\ <<frame.location.endLine, frame.location.endChar>>
                        = normalizePositions(sourceFile.chars, <<Offset(-event.end)>>)[1]

\* The failing inputs of C24, C27 and C29, as states.
\* A check of the node at the start of the file over [0,2] (no frame) holds a
\* check over [1,2]; a check of a file over [2,4] follows: the frame of the
\* shorter check stands first.
C24_FailingInput ==
    /\ HotSpotsDone
    /\ Len(spans) = 3
    /\ <<spans[1].start, spans[1].end>> = <<0, 2>> /\ ~HasDescription(1)
    /\ <<spans[2].start, spans[2].end>> = <<1, 2>> /\ HasDescription(2)
    /\ <<spans[3].start, spans[3].end>> = <<2, 4>> /\ HasDescription(3)
    /\ children[0] = <<1, 3>> /\ children[1] = <<2>>
    /\ NodesOf(hotSpots) = <<2, 3>>
\* A types file that cannot be read, and a trace with one check of a file.
C27_FailingInput ==
    /\ pc = "rejected"
    /\ typesPath = "types.json" /\ ~typesReadable
    /\ Len(spans) = 1 /\ spans[1].event.name = "checkSourceFile"
    /\ hotSpots = <<>>
\* The file "a  a": a node over offsets 1 to 2 and the node that follows it,
\* over offsets 2 to 3, whose pos is the first node's end. The first node's end
\* is reported where the second node's start is.
C29_FailingInput ==
    /\ HotSpotsDone
    /\ sourceFile = Source(<<code_Letter, code_Space, code_Space, code_Letter>>)
    /\ Len(spans) = 2
    /\ <<spans[1].event.pos, spans[1].event.end>> = <<1, 2>>
    /\ <<spans[2].event.pos, spans[2].event.end>> = <<2, 3>>
    /\ children[0] = <<1, 2>>
    /\ Len(hotSpots) = 2
    /\ hotSpots[1].node = 1 /\ hotSpots[1].location.endChar = 4
    /\ hotSpots[2].node = 2 /\ hotSpots[2].location.startChar = 4
    /\ normalizePositions(sourceFile.chars, <<Offset(-2)>>)[1] = <<1, 3>>

\* ------------------------------------------------------------------ C25

Reported == pc = "reported"
\* The worker of project p ended with an exit code other than 0 and 1 or with
\* a signal.
FailedExit(p) ==
    \/ driver.results[p].signal # NoSignal
    \/ driver.results[p].exitCode \notin {0, 1}
\* The claim's errors: a stderr that is not empty, a signal, an exit code
\* other than 0 and 1.
IsErrorAsClaimed(p) == driver.results[p].stderr # <<>> \/ FailedExit(p)
\* The code's errors: those, and in JSON mode the worker that exits with 0
\* and whose stdout is not JSON.
IsError(p) ==
    \/ IsErrorAsClaimed(p)
    \/ driver.json /\ driver.results[p].exitCode = 0 /\ ~IsJson(driver.results[p].stdout)
ExitCodeFor(errors) ==
    IF errors # {} THEN 2
    ELSE IF \E p \in Projects : driver.results[p].exitCode = 0 THEN 0
    ELSE 1
WorkerFailed(p) ==
    \/ driver.worker[p] = "failed"
    \/ driver.worker[p] = "exited" /\ IsErrorAsClaimed(p)
\* Every project has its own result and the failed ones are among the errors
\* of the report.
AllReported ==
    /\ \A p \in Projects : driver.results[p].project = p
    /\ \A p \in Projects : WorkerFailed(p) => p \in Range(driver.report.errors)
\* C26: the driver ends by reporting, with one result per project, and a
\* project whose worker failed is reported as an error whatever its siblings
\* did.
C26_OneResultPerProject ==
    pc \in {"reported", "crashed"} => (pc = "reported" /\ AllReported)
\* When the driver does report, the report is as C26 says.
ReportedAsClaimed == Reported => AllReported
\* Two projects, one worker at a time: the first worker has exited with
\* highlights, the second fails to start, and the driver ends without a report.
C26_FailingInput ==
    /\ pc = "crashed"
    /\ Cardinality(Projects) = 2 /\ driver.limit = 1
    /\ driver.worker[1] = "exited" /\ driver.results[1].exitCode = 0
    /\ driver.worker[2] = "failed"
    /\ driver.report = NoReport

\* ------------------------------------------------------------------ C30

Counted == pc = "counted"
\* The kinds step gave the characters from place i to place j of the file.
KindsOf(i, j) == [k \in 1..(j - i + 1) |-> counter.scanned[i + k - 1].charKind]
CharsOf(i, j) == [k \in 1..(j - i + 1) |-> counter.scanned[i + k - 1].ch]
\* The places where an occurrence of the target, all of it code, ends.
TargetEnds ==
    {j \in Len(target)..Len(counter.scanned) :
        /\ CharsOf(j - Len(target) + 1, j) = target
        /\ \A k \in (j - Len(target) + 1)..j : counter.scanned[k].charKind = "code"}
IsStringAt(k) == k <= Len(counter.scanned) /\ counter.scanned[k].charKind = "string"
\* The string-classified characters right after place j.
RECURSIVE StringAfter(_)
StringAfter(j) == IF IsStringAt(j + 1) THEN <<counter.scanned[j + 1].ch>> \o StringAfter(j + 1) ELSE <<>>
\* The names the claim lets the table hold: the strings that immediately
\* follow an occurrence of the target.
ImportedNames == {StringAfter(j) : j \in {i \in TargetEnds : IsStringAt(i + 1)}}
\* C30: the table has an entry only for a string that immediately follows a
\* code-classified import( ; an import( followed by anything else adds no
\* entry and no count.
C30_OnlyStringImportsCounted ==
    Counted => DOMAIN counter.frequency \subseteq ImportedNames
\* The file `import(a)`: the target is followed by a letter of code.
C30_FailingInput ==
    /\ Counted
    /\ CharsOf(1, Len(counter.scanned)) = target \o <<code_Letter, code_CloseParen>>
    /\ counter.frequency = [name \in {<<>>} |-> 1]

\* ------------------------------------------------------------------ C31

\* The k-th character was stepped in a regex literal.
InRegex(k) == Scanned[k].state \in RegexStates
\* The k-th character opens a regex literal.
OpensRegex(k) == Scanned[k].state = "Default" /\ Scanned[k].after.state = "Regex"
\* What the claim says of the slashes and brackets stepped in a regex
\* literal: a `/` ends the literal exactly when it is met outside a class and
\* unescaped, an escaped `[` opens no class and an escaped `]` closes none.
RegexDelimitersAt(k) ==
    /\ Scanned[k].ch = code_Slash =>
          (Scanned[k].after.state = "Default") = (Scanned[k].state = "Regex")
    /\ Scanned[k].ch = code_Slash /\ Scanned[k].state # "Regex" =>
          Scanned[k].after.state \in RegexStates
    /\ Scanned[k].ch = code_OpenBracket /\ Scanned[k].state = "RegexEscapeOpenBracket" =>
          Scanned[k].after.state = "Regex"
    /\ Scanned[k].ch = code_CloseBracket /\ Scanned[k].state = "CharClassEscapeCloseBracket" =>
          Scanned[k].after.state = "CharClass"
\* C31: in a regex literal a `/` ends the literal only outside a character
\* class and unescaped, an escaped `[` opens no class, an escaped `]` closes
\* none, and every character from the opening to the closing `/` is
\* classified regex.
C31_RegexLiteral ==
    \A k \in 1..Len(Scanned) :
        /\ InRegex(k) => RegexDelimitersAt(k)
        /\ InRegex(k) \/ OpensRegex(k) => Scanned[k].charKind = "regex"
\* The slashes and brackets alone: this part holds.
RegexDelimiters == \A k \in 1..Len(Scanned) : InRegex(k) => RegexDelimitersAt(k)
\* The file that begins with a template literal whose hole holds the regex
\* /}/ : the } is stepped in regex state and classified string.
C31_FailingInput ==
    /\ pc = "normalized"
    /\ Len(Scanned) = 5
    /\ [k \in 1..5 |-> Scanned[k].ch]
          = <<code_Backtick, code_Dollar, code_OpenBrace, code_Slash, code_CloseBrace>>
    /\ Scanned[5].state = "Regex"
    /\ Scanned[5].charKind = "string"

\* ------------------------------------------------------------------ C36

\* The k-th character closed an expression hole.
ClosedHoleAt(k) ==
    Len(Scanned[k].after.templateStringBraceDepthStack)
        < Len(MachineBefore(k).templateStringBraceDepthStack)
\* C36: a hole is closed, and the lexer back in template-string state, only
\* by a `}` stepped in default state; a `}` in a string, a regex or a comment
\* nested in the hole closes nothing.
C36_HoleClosedInDefaultOnly ==
    \A k \in 1..Len(Scanned) : ClosedHoleAt(k) => MachineBefore(k).state = "Default"
\* The hole of a template literal holds a line comment with a } in it.
C36_FailingInput ==
    /\ Len(Scanned) >= 6
    /\ [k \in 1..6 |-> Scanned[k].ch]
          = <<code_Backtick, code_Dollar, code_OpenBrace, code_Slash, code_Slash, code_CloseBrace>>
    /\ MachineBefore(6).state = "SingleLineComment"
    /\ ClosedHoleAt(6)
    /\ Scanned[6].after.state = "TemplateString"

\* ------------------------------------------------------------------ C39

\* The brace counters of a machine are consistent.
BracesConsistent(m) ==
    /\ m.braceDepth >= 0
    /\ \A i \in 1..Len(m.templateStringBraceDepthStack) :
          \A j \in i..Len(m.templateStringBraceDepthStack) :
             m.templateStringBraceDepthStack[i] <= m.templateStringBraceDepthStack[j]
    /\ m.templateStringBraceDepthStack # <<>> =>
          m.braceDepth >= Last(m.templateStringBraceDepthStack)
\* C39: braceDepth is never negative, the stack's entries do not decrease
\* from bottom to top, braceDepth is at least the top entry, and the stack is
\* popped only by a `}` stepped while braceDepth equals the top entry.
C39_BraceInvariant ==
    /\ BracesConsistent(normalizer.stateMachine)
    /\ \A k \in 1..Len(Scanned) :
          /\ BracesConsistent(Scanned[k].after)
          /\ ClosedHoleAt(k) =>
                /\ Scanned[k].ch = code_CloseBrace
                /\ MachineBefore(k).braceDepth = Last(MachineBefore(k).templateStringBraceDepthStack)
                /\ Scanned[k].after.templateStringBraceDepthStack
                      = Front(MachineBefore(k).templateStringBraceDepthStack)
\* A block opens, a template literal's hole opens in it with the snapshot 1,
\* and the next } closes the hole, not the block.
C39_Witness ==
    /\ Len(Scanned) = 5
    /\ [k \in 1..5 |-> Scanned[k].ch]
          = <<code_OpenBrace, code_Backtick, code_Dollar, code_OpenBrace, code_CloseBrace>>
    /\ MachineBefore(5).templateStringBraceDepthStack = <<1>>
    /\ ClosedHoleAt(5)
    /\ Scanned[5].after.braceDepth = 1
\* Two holes are open, one inside the other.
TwoHolesOpen == Len(normalizer.stateMachine.templateStringBraceDepthStack) = 2

\* ------------------------------------------------------------------ C32

\* The kind a state gives its characters; "" for the default state.
KindOfState(state) ==
    IF state \in CommentStates THEN "comment"
    ELSE IF state \in StringStates THEN "string"
    ELSE IF state \in RegexStates THEN "regex"
    ELSE ""
\* The skipping query targets the k-th character, white space classified
\* string or regex, and the file has been read.
TargetsLiteralWhitespace(k) ==
    /\ pc = "normalized"
    /\ positions = <<Offset(k - 1)>>
    /\ IsWhitespace(Scanned[k].ch)
    /\ Scanned[k].charKind \in {"string", "regex"}
ResolvesAtTarget == \A k \in 1..Len(Scanned) : TargetsLiteralWhitespace(k) => result[1] = Scanned[k].lineChar
\* C32 as stated: a whitespace character met in a comment, string or regex
\* state is classified comment, string or regex, and a skipping query that
\* targets white space in a string or regex resolves at it.
C32_StateBeforeDecides ==
    /\ \A k \in 1..Len(Scanned) :
          IsWhitespace(Scanned[k].ch) /\ KindOfState(Scanned[k].state) # "" =>
             Scanned[k].charKind = KindOfState(Scanned[k].state)
    /\ ResolvesAtTarget
\* C32, amended: a whitespace character is classified by the state it leaves
\* the lexer in - comment, string or regex when that state is still active
\* after it, whitespace when it is a line terminator that ended the comment
\* or string - and a skipping query that targets white space classified
\* string or regex resolves at it.
C32_StateDecides ==
    /\ \A k \in 1..Len(Scanned) :
          IsWhitespace(Scanned[k].ch) =>
             Scanned[k].charKind =
                IF KindOfState(Scanned[k].after.state) # ""
                THEN KindOfState(Scanned[k].after.state) ELSE "whitespace"
    /\ ResolvesAtTarget
\* The file `" "` asked for offset 1: the space is stepped in a string,
\* classified string, and the query resolves at line 1, char 2.
C32_Witness ==
    /\ kind = "kinds"
    /\ Len(Scanned) = 3
    /\ TargetsLiteralWhitespace(2)
    /\ [k \in 1..Len(Scanned) |-> Scanned[k].ch] = <<code_DoubleQuote, code_Space, code_DoubleQuote>>
    /\ Scanned[2].state = "DoubleQuoteString"
    /\ Scanned[2].charKind = "string"
    /\ result = <<<<1, 2>>>>

\* ------------------------------------------------------------------ C33

\* The bit of a flag in the legacy table, and the bitfield of a list of names.
BitOf(name) == (CHOOSE i \in DOMAIN FlagNames41 : FlagNames41[i] = name) - 1
RECURSIVE BitfieldOf(_)
BitfieldOf(names) ==
    IF names = <<>> THEN 0 ELSE 2 ^ BitOf(Head(names).text) + BitfieldOf(Tail(names))
\* The names of the flags of a bitfield, lowest bit first.
RECURSIVE NamesFrom(_, _)
NamesFrom(n, i) ==
    IF i > Len(FlagNames41) THEN <<>>
    ELSE (IF n % 2 = 1 THEN <<FlagText(FlagNames41[i])>> ELSE <<>>) \o NamesFrom(n \div 2, i + 1)
\* The otherwise identical record with the flags written the other way.
Twin(type) ==
    IF Len(type.flags) = 1 /\ IsDigits(type.flags[1])
    THEN [type EXCEPT !.flags = NamesFrom(type.flags[1].digits, 1)]
    ELSE [type EXCEPT !.flags = <<FlagDigits(BitfieldOf(type.flags))>>]
\* C33: for every set of flags of the legacy table, the record whose flags
\* field is the number of the set and the otherwise identical record whose
\* flags field lists the names of the set get the same kind.
C33_LegacyFlagsSameKind ==
    pc = "simplified" => simplified.kind = simplifyType(Twin(rawType)).kind
\* A named record with the flags Any, StringMapping and Object as a number:
\* its kind is Object, as with the three names.
C33_Witness ==
    /\ pc = "simplified"
    /\ kind = "flags"
    /\ rawType.symbolName = "Foo"
    /\ rawType.flags = <<FlagDigits(1 + 2 ^ 19 + 2 ^ 28)>>
    /\ Twin(rawType).flags = <<FlagText("Any"), FlagText("Object"), FlagText("StringMapping")>>
    /\ simplified.kind = <<"Object">>

\* ------------------------------------------------------------------ C34

\* The first rule the raw record matches is the union-member list, or the
\* intersection-member list.
UnionFirst == rawType.intrinsicName = "" /\ rawType.unionTypes # <<>>
IntersectionFirst ==
    rawType.intrinsicName = "" /\ rawType.unionTypes = <<>> /\ rawType.intersectionTypes # <<>>
Named == rawType.symbolName # ""
UnionKinds ==
    UnionFirst => simplified.kind = IF Named THEN <<"Aliased", "Union">> ELSE <<"Union">>
\* C34 as stated: a union is Union without a symbol name and AliasedUnion
\* with one; an intersection is Intersection.
C34_IntersectionAsClaimed ==
    pc = "simplified" =>
        /\ UnionKinds
        /\ IntersectionFirst => simplified.kind = <<"Intersection">>
\* C34, amended: a union is Union without a symbol name and AliasedUnion
\* with one; an intersection is Intersection without a symbol name and
\* AliasedIntersection with one.
C34_UnionAndIntersection ==
    pc = "simplified" =>
        /\ UnionKinds
        /\ IntersectionFirst =>
              simplified.kind = IF Named THEN <<"Aliased", "Intersection">> ELSE <<"Intersection">>
\* A named intersection that is also a tuple.
C34_Witness ==
    /\ pc = "simplified"
    /\ IntersectionFirst
    /\ Named
    /\ rawType.isTuple
    /\ simplified.kind = <<"Aliased", "Intersection">>
\* A union without a name, and one with a name.
C34_WitnessUnion == pc = "simplified" /\ UnionFirst /\ ~Named /\ simplified.kind = <<"Union">>
C34_WitnessAliasedUnion ==
    pc = "simplified" /\ UnionFirst /\ Named /\ simplified.kind = <<"Aliased", "Union">>

\* ------------------------------------------------------------------ C35

\* The text of a list of chunks.
RECURSIVE Flatten(_)
Flatten(chunks) == IF chunks = <<>> THEN <<>> ELSE Head(chunks) \o Flatten(Tail(chunks))
\* The log is that of the text stepped once, in order, each character with
\* its successor as lookahead; `held` is the character kept back for the
\* next chunk, `ended` tells that the stream has closed.
SteppedInOrder(log, text, ended) ==
    /\ Len(log) = IF ended \/ text = <<>> THEN Len(text) ELSE Len(text) - 1
    /\ \A k \in 1..Len(log) :
          /\ log[k].ch = text[k]
          /\ log[k].nextCh = IF k < Len(text) THEN text[k + 1] ELSE NoChar
\* countImportExpressions on a whole text delivered as one chunk.
CountOfText(text) == countOnClose(countOnData(Counter, text)).frequency
\* C35: however the text is cut into chunks, normalizePositions and
\* countImportExpressions step each character once, in order, with its
\* successor (-1 after the last) as lookahead, every chunk being processed
\* before the next arrives, and their results are those of the text in one
\* chunk.
C35_ChunkingIrrelevant ==
    /\ pc = "scanning" =>
          /\ SteppedInOrder(Scanned, Flatten(normalizer.delivered), FALSE)
          /\ Flatten(normalizer.delivered) # <<>> =>
                normalizer.prevCh = Last(Flatten(normalizer.delivered))
    /\ pc = "normalized" /\ positions # <<>> =>
          /\ SteppedInOrder(Scanned, Flatten(normalizer.delivered), TRUE)
          /\ result = normalizePositions(Flatten(normalizer.delivered), positions)
    /\ pc = "counting" =>
          /\ SteppedInOrder(counter.scanned, Flatten(counter.delivered), FALSE)
          /\ Flatten(counter.delivered) # <<>> =>
                counter.prevCh = Last(Flatten(counter.delivered))
    /\ pc = "counted" =>
          /\ SteppedInOrder(counter.scanned, Flatten(counter.delivered), TRUE)
          /\ counter.frequency = CountOfText(Flatten(counter.delivered))
\* The text `import("a")` cut inside the word import: the name is counted
\* once.
C35_Witness ==
    /\ pc = "counted"
    /\ counter.delivered = <<SubSeq(target, 1, 3), SubSeq(target, 4, Len(target)),
                             <<code_DoubleQuote, code_Letter, code_DoubleQuote>>,
                             <<code_CloseParen>>>>
    /\ counter.frequency = [name \in {<<code_DoubleQuote, code_Letter, code_DoubleQuote>>} |-> 1]
\* The text `/ a` cut after the slash and after the space, and asked for
\* offset 1.
C35_WitnessPositions ==
    /\ pc = "normalized"
    /\ normalizer.delivered = <<<<code_Slash>>, <<code_Space, code_Letter>>>>
    /\ positions = <<Offset(1)>>
    /\ result = <<<<1, 2>>>>

\* ------------------------------------------------------------------ C37

StacksDone == pc = "hotStacks"
EntryNodes(object) == {object[i].node : i \in DOMAIN object}
\* Every entry of the tree, at any depth.
RECURSIVE AllEntries(_)
AllEntries(object) ==
    IF object = <<>> THEN <<>>
    ELSE <<Head(object)>> \o AllEntries(Head(object).value) \o AllEntries(Tail(object))

\* C37: in the tree makePrintableTree returns, every node whose event yields
\* a label has an entry of its own under its nearest ancestor that has one
\* (the top level when there is none): no two nodes merged into one level
\* share an entry, whatever their labels.
C37_EveryNodeOwnEntry ==
    StacksDone =>
        LET all == AllEntries(printable)
        IN /\ EntryNodes(printable) = Range(NearestVisible(children[0]))
           /\ \A i \in DOMAIN all :
                 EntryNodes(all[i].value) = Range(NearestVisible(children[all[i].node]))
\* Two checks of the same expression, both rounding to the same milliseconds,
\* stand side by side in the tree of spans: the printed tree has one entry.
C37_FailingInput ==
    /\ StacksDone
    /\ Len(children[0]) = 2
    /\ \A i \in 1..2 : spans[children[0][i]].event.name = "checkExpression"
    /\ HasDescription(children[0][1]) /\ HasDescription(children[0][2])
    /\ Len(printable) = 1
    /\ printable[1].node = children[0][2]

\* ------------------------------------------------------------------ C38

\* C38: the result analyzeProject resolves with on the worker's exit holds
\* everything the worker wrote to its stdout and its stderr (trimmed): no
\* piece is delivered after the result was taken.
C38_ResultHasEveryChunk ==
    \A p \in Projects :
        driver.worker[p] = "exited" =>
            /\ driver.results[p].stdout = Trim(driver.written[p].stdout)
            /\ driver.results[p].stderr = Trim(driver.written[p].stderr)
\* The worker wrote its JSON report and ended with code 0; the exit callback
\* ran before the data callback, and the result has an empty stdout although
\* the whole report has reached the local since.
C38_FailingInput ==
    /\ pc = "forking"
    /\ \E p \in Projects :
          /\ driver.worker[p] = "exited"
          /\ driver.written[p].stdout = <<JsonReport, "\n">>
          /\ driver.locals[p].stdout = driver.written[p].stdout
          /\ driver.results[p].exitCode = 0
          /\ driver.results[p].stdout = <<>>

====
